---- MODULE Spec2Model ----
(***************************************************************************)
(* ClarityCV: the resume pipeline (text cleaning, section detection, ATS   *)
(* optimization, download generation, template application) and the editor *)
(* that opens on its result; the upload section that reads a file and     *)
(* starts the pipeline; and the lazy loader of the libraries.              *)
(*                                                                         *)
(* A text is a sequence of characters.  A character is a one-character     *)
(* string; a non-ASCII or unprintable character is a named token such as   *)
(* "<bullet>".  Every regular expression of the source is an operator on   *)
(* such sequences.                                                         *)
(***************************************************************************)
EXTENDS Integers, Sequences, FiniteSets, TLC

VARIABLES
    stage,       \* where the document stands in the processing workflow
    upload,      \* the uploaded file: [kind, raw], raw being the extracted text
    doc,         \* the ParsedDocument, << >> before parsing
    runs,        \* the ATSOptimizedDocument of every optimizeForATS call so far
    steps,       \* values of the local optimizedContent in the last call
    reState,     \* lastIndex left in the specialChars expression by the last call
    downloads,   \* DownloadOption[] returned by generateDownloadOptions
    templated,   \* the TemplatedDocument returned by applyTemplate, << >> if none
    error,       \* the error thrown to the caller of processDocument, << >> if none
    activeTab,          \* EditorInterface: the tab shown, "none" while not mounted
    currentContent,     \* EditorInterface: the content being edited
    currentSections,    \* EditorInterface: the sections being edited
    hasUnsavedChanges,  \* EditorInterface
    lastSaved,          \* EditorInterface: "null" or "date"
    isAutoSaving,       \* EditorInterface
    editingSectionId,   \* SectionManager: << >> for null, else <<index>>, 0-based
    openedSection,      \* history: the section handleEditSection was called on, << >> if none
    editingContent,     \* SectionManager: the text in the textarea
    editorState,        \* ResumeEditor: << >> while not mounted
    localStorage,       \* window.localStorage
    sessionStorage,     \* window.sessionStorage
    isAutoClearing,     \* DataClearanceManager
    delivered,          \* the file this step handed to the browser: <<[format, content]>>
    edits,              \* edits made since the page was loaded
    uploadStatus,       \* useFileUpload: [state, file], file "none" for undefined
    fileUploader,       \* FileUploader: its own uploadStatus, "unmounted" while not shown
    reading,            \* processUploadedFile calls not yet settled, oldest first
    processingResult,   \* FileUploadSection: "null" or the file the result is of
    isProcessing,       \* FileUploadSection
    processors,         \* the DocumentProcessor rendered at each of the three places
    processing,         \* processDocument calls not yet settled, oldest first
    called,             \* callbacks of FileUploader invoked by this step
    libraries,          \* LazyLibraryLoader: [loaded, loading, module] of each library
    loads,              \* executeLoad calls not yet settled: [name, id, callers]
    returned            \* what this step gave the callers of loadLibrary

pipeline == <<upload, doc, runs, steps, reState, downloads, templated, error>>

editor == <<activeTab, currentContent, currentSections, hasUnsavedChanges, lastSaved,
            isAutoSaving, editingSectionId, openedSection, editingContent, editorState, localStorage,
            sessionStorage, isAutoClearing, delivered, edits>>

uploadSection == <<uploadStatus, fileUploader, reading, processingResult, isProcessing,
                   processors, processing, called>>

lazyLoader == <<libraries, loads, returned>>

\* the state outside the pipeline and the editor
shell == <<uploadSection, lazyLoader>>

vars == <<stage, pipeline, editor, shell>>

(***************************************************************************)
(* Bounds of the model                                                     *)
(***************************************************************************)
MaxLines == 3     \* lines of a document given to the optimizer
MaxPieces == 3    \* pieces of extracted text in an uploaded file
MaxRuns == 2      \* optimizeForATS calls on one document
MaxSlots == 2     \* entries of a custom template's sectionOrder
MaxEdits == 2     \* edits made in the editor on one page
MaxInFlight == 2  \* asynchronous calls of one kind that have not settled yet

(***************************************************************************)
(* Characters                                                              *)
(***************************************************************************)
LowerLetters == <<"a","b","c","d","e","f","g","h","i","j","k","l","m",
                  "n","o","p","q","r","s","t","u","v","w","x","y","z">>
UpperLetters == <<"A","B","C","D","E","F","G","H","I","J","K","L","M",
                  "N","O","P","Q","R","S","T","U","V","W","X","Y","Z">>
LowerSet == {LowerLetters[i] : i \in 1..26}
UpperSet == {UpperLetters[i] : i \in 1..26}
LetterSet == LowerSet \cup UpperSet
DigitSet == {"0","1","2","3","4","5","6","7","8","9"}

\* JavaScript \s and String.prototype.trim
WhiteSpace == {" ", "\t", "\n", "\r", "\f", "<vt>", "<nbsp>"}
\* [\u0000-\u001F\u007F-\u009F]
ControlChars == {"<nul>", "\t", "\n", "<vt>", "\f", "\r", "<esc>", "<del>", "<c1>"}
\* [•·▪▫■□‣⁃]
BulletGlyphs8 == {"<bullet>", "<middot>", "<blacksq>", "<whitesq>",
                  "<blackbox>", "<whitebox>", "<tribullet>", "<hyphbullet>"}
\* [○◦‣⁃]
BulletGlyphs4 == {"<whitecircle>", "<whitebullet>", "<tribullet>", "<hyphbullet>"}
\* [•·▪▫■□‣⁃○◦]
BulletGlyphs10 == BulletGlyphs8 \cup BulletGlyphs4

ToUpperChar(c) ==
    IF c \in LowerSet
    THEN UpperLetters[CHOOSE i \in 1..26 : LowerLetters[i] = c]
    ELSE c
ToLowerChar(c) ==
    IF c \in UpperSet
    THEN LowerLetters[CHOOSE i \in 1..26 : UpperLetters[i] = c]
    ELSE c

(***************************************************************************)
(* String functions of the JavaScript runtime                              *)
(***************************************************************************)
\* const name = value: the value is computed once and then referred to by name
With(value, Body(_)) == Body(value)

toUpperCase(s) == [i \in 1..Len(s) |-> ToUpperChar(s[i])]
toLowerCase(s) == [i \in 1..Len(s) |-> ToLowerChar(s[i])]

Min(S) == CHOOSE x \in S : \A y \in S : x <= y
Max(S) == CHOOSE x \in S : \A y \in S : x >= y

trim(s) ==
    LET keep == {i \in 1..Len(s) : s[i] \notin WhiteSpace}
    IN  IF keep = {} THEN <<>> ELSE SubSeq(s, Min(keep), Max(keep))

RECURSIVE Flatten(_)
Flatten(ss) ==
    IF Len(ss) = 0 THEN <<>>
    ELSE IF Len(ss) = 1 THEN ss[1]
    ELSE LET h == Len(ss) \div 2
         IN  Flatten(SubSeq(ss, 1, h)) \o Flatten(SubSeq(ss, h + 1, Len(ss)))

RECURSIVE Str(_)
Str(s) == IF Len(s) = 0 THEN "" ELSE Head(s) \o Str(Tail(s))

\* s.split(sep) for a one-character separator
split(s, sep) ==
    LET cuts == {i \in 1..Len(s) : s[i] = sep}
        n == Cardinality(cuts)
        cut(k) == IF k = 0 THEN 0
                  ELSE IF k = n + 1 THEN Len(s) + 1
                  ELSE CHOOSE i \in cuts : Cardinality({j \in cuts : j <= i}) = k
    IN  [k \in 1..(n + 1) |-> SubSeq(s, cut(k - 1) + 1, cut(k) - 1)]

\* parts.join(sep)
join(parts, sep) ==
    Flatten([k \in 1..Len(parts) |-> IF k = 1 THEN parts[k] ELSE sep \o parts[k]])

\* s.startsWith / s.endsWith / s.indexOf / s.includes
endsWith(s, c) == Len(s) > 0 /\ s[Len(s)] = c
OccursAt(s, pat, i) == i + Len(pat) - 1 <= Len(s) /\ SubSeq(s, i, i + Len(pat) - 1) = pat
indexOf(s, pat) ==
    LET hits == {i \in 1..(Len(s) + 1) : OccursAt(s, pat, i)}
    IN  IF hits = {} THEN 0 ELSE Min(hits)
includes(s, pat) == indexOf(s, pat) # 0

\* s.replace(pat, by) with a string pattern: the first occurrence only
replaceFirst(s, pat, by) ==
    LET i == indexOf(s, pat)
    IN  IF i = 0 THEN s
        ELSE SubSeq(s, 1, i - 1) \o by \o SubSeq(s, i + Len(pat), Len(s))

\* text.trim().split(/\s+/).filter(word => word.length > 0).length
WordStarts(s) == {i \in 1..Len(s) : s[i] \notin WhiteSpace /\ (i = 1 \/ s[i - 1] \in WhiteSpace)}
countWords(s) == Cardinality(WordStarts(s))

\* every whitespace run replaced by one space, for matching \s+ between words
NormWS(s) ==
    LET m == [i \in 1..Len(s) |->
                IF s[i] \notin WhiteSpace THEN s[i]
                ELSE IF i > 1 /\ s[i - 1] \in WhiteSpace THEN "<drop>" ELSE " "]
    IN  SelectSeq(m, LAMBDA c : c # "<drop>")

(***************************************************************************)
(* ats-optimizer.ts: taxonomy                                              *)
(***************************************************************************)
SectionKeys == <<"PERSONAL_INFO", "PROFESSIONAL_SUMMARY", "WORK_EXPERIENCE",
                 "EDUCATION", "SKILLS", "CERTIFICATIONS", "PROJECTS",
                 "VOLUNTEER", "AWARDS", "PUBLICATIONS", "LANGUAGES", "INTERESTS">>

STANDARD_SECTIONS ==
    [ PERSONAL_INFO |-> <<"C","o","n","t","a","c","t"," ","I","n","f","o","r","m","a","t","i","o","n">>,
      PROFESSIONAL_SUMMARY |-> <<"P","r","o","f","e","s","s","i","o","n","a","l"," ","S","u","m","m","a","r","y">>,
      WORK_EXPERIENCE |-> <<"W","o","r","k"," ","E","x","p","e","r","i","e","n","c","e">>,
      EDUCATION |-> <<"E","d","u","c","a","t","i","o","n">>,
      SKILLS |-> <<"S","k","i","l","l","s">>,
      CERTIFICATIONS |-> <<"C","e","r","t","i","f","i","c","a","t","i","o","n","s">>,
      PROJECTS |-> <<"P","r","o","j","e","c","t","s">>,
      VOLUNTEER |-> <<"V","o","l","u","n","t","e","e","r"," ","E","x","p","e","r","i","e","n","c","e">>,
      AWARDS |-> <<"A","w","a","r","d","s"," ","a","n","d"," ","H","o","n","o","r","s">>,
      PUBLICATIONS |-> <<"P","u","b","l","i","c","a","t","i","o","n","s">>,
      LANGUAGES |-> <<"L","a","n","g","u","a","g","e","s">>,
      INTERESTS |-> <<"A","d","d","i","t","i","o","n","a","l"," ","I","n","f","o","r","m","a","t","i","o","n">> ]

\* each alternative of /^(a|b|...)$/i, with \s+ written as one space
SECTION_PATTERNS ==
    [ PERSONAL_INFO |-> {"contact information", "personal information", "contact",
                         "contact details", "personal details"},
      PROFESSIONAL_SUMMARY |-> {"professional summary", "summary", "profile", "objective",
                                "career objective", "personal statement", "about me", "overview"},
      WORK_EXPERIENCE |-> {"work experience", "professional experience", "employment",
                           "career history", "experience", "work history",
                           "professional background", "my professional journey"},
      EDUCATION |-> {"education", "academic background", "qualifications",
                     "academic qualifications", "educational background"},
      SKILLS |-> {"skills", "technical skills", "core competencies", "competencies",
                  "expertise", "abilities", "proficiencies", "key skills"},
      CERTIFICATIONS |-> {"certifications", "certificates", "professional certifications",
                          "licenses", "credentials"},
      PROJECTS |-> {"projects", "key projects", "notable projects", "project experience",
                    "portfolio"},
      VOLUNTEER |-> {"volunteer", "volunteer experience", "community service",
                     "volunteer work", "community involvement"},
      AWARDS |-> {"awards", "honors", "achievements", "recognition", "accomplishments",
                  "awards and honors"},
      PUBLICATIONS |-> {"publications", "research", "papers", "articles", "published work"},
      LANGUAGES |-> {"languages", "language skills", "linguistic abilities"},
      INTERESTS |-> {"interests", "hobbies", "additional information", "personal interests",
                     "other", "miscellaneous"} ]

\* pattern.test(cleanHeading) for the patterns of one section key
PatternTest(key, cleanHeading) == Str(NormWS(cleanHeading)) \in SECTION_PATTERNS[key]

\* the alternatives of the three headingPatterns of isLikelyHeading
HeadingPrefixes ==
    {"professional", "work", "career", "education", "skills", "experience", "projects",
     "certifications", "summary", "objective", "profile", "background", "history",
     "qualifications", "awards", "honors", "achievements", "publications", "languages",
     "interests"}

(***************************************************************************)
(* ats-optimizer.ts: section detection                                     *)
(***************************************************************************)
isLikelyHeading(line) ==
    IF Len(line) = 0 THEN FALSE
    ELSE IF Len(line) > 50 THEN FALSE
    ELSE IF endsWith(line, ".") \/ endsWith(line, ",") THEN FALSE
    ELSE LET isAllCaps == line = toUpperCase(line) /\ line # toLowerCase(line)
             words == split(line, " ")
             isTitleCase == \A k \in 1..Len(words) :
                               Len(words[k]) = 0 \/ words[k][1] = ToUpperChar(words[k][1])
             lower == toLowerCase(line)
         IN  \/ isAllCaps
             \/ isTitleCase
             \/ \E k \in 1..Len(lower) : Str(SubSeq(lower, 1, k)) \in HeadingPrefixes

\* the key of the first section whose pattern matches, "" for null
matchSectionPattern(heading) ==
    LET cleanHeading == trim(toLowerCase(heading))
        hits == {k \in 1..Len(SectionKeys) : PatternTest(SectionKeys[k], cleanHeading)}
    IN  IF hits = {} THEN "" ELSE SectionKeys[Min(hits)]

\* the heading is compared with the standard title as it is written
calculateConfidenceCaseSensitive(originalHeading, matchedSection) ==
    IF ~PatternTest(matchedSection, trim(toLowerCase(originalHeading))) THEN 0
    ELSE IF trim(originalHeading) = STANDARD_SECTIONS[matchedSection] THEN 10
    ELSE 8

\* confidence in tenths: 10 is 1.0, 8 is 0.8
calculateConfidence(originalHeading, matchedSection) ==
    LET cleanHeading == trim(toLowerCase(originalHeading))
    IN  IF ~PatternTest(matchedSection, cleanHeading) THEN 0
        ELSE IF cleanHeading = toLowerCase(STANDARD_SECTIONS[matchedSection]) THEN 10
        ELSE 8

\* the content scan never stops at a heading
ContentStopAtEnd(lines, i) == Len(lines) + 1

\* the content scan takes the heading that should stop it
ContentStopInclusive(lines, i) ==
    LET stops == {j \in (i + 1)..Len(lines) : isLikelyHeading(trim(lines[j]))}
    IN  IF stops = {} THEN Len(lines) + 1 ELSE Min(stops) + 1

\* index (1-based) of the line that ends the content scan started after line i
ContentStop(lines, i) ==
    LET stops == {j \in (i + 1)..Len(lines) : isLikelyHeading(trim(lines[j]))}
    IN  IF stops = {} THEN Len(lines) + 1 ELSE Min(stops)

\* startIndex and endIndex are the 0-based line numbers of the source
detectSections(text) ==
    LET lines == split(text, "\n")
        cand == [i \in 1..Len(lines) |->
                   With(trim(lines[i]), LAMBDA line :
                   With(IF Len(line) > 0 /\ isLikelyHeading(line)
                        THEN matchSectionPattern(line) ELSE "", LAMBDA key :
                       IF key = ""
                       THEN [ok |-> FALSE, title |-> <<>>, standardTitle |-> <<>>,
                             content |-> <<>>, startIndex |-> 0, endIndex |-> 0,
                             confidence |-> 0]
                       ELSE With(ContentStop(lines, i), LAMBDA j :
                                [ok |-> TRUE, title |-> line,
                                 standardTitle |-> STANDARD_SECTIONS[key],
                                 content |-> trim(join(SubSeq(lines, i + 1, j - 1), <<"\n">>)),
                                 startIndex |-> i - 1, endIndex |-> j - 2,
                                 confidence |-> calculateConfidence(line, key)])))]
    IN  With(SelectSeq(cand, LAMBDA r : r.ok), LAMBDA found :
        [k \in 1..Len(found) |->
            [title |-> found[k].title, standardTitle |-> found[k].standardTitle,
             content |-> found[k].content, startIndex |-> found[k].startIndex,
             endIndex |-> found[k].endIndex, confidence |-> found[k].confidence]])

(***************************************************************************)
(* Regular-expression replacements shared by the parsers and the optimizer *)
(***************************************************************************)
\* s.replace(/[set]{minLen,}/g, by): every maximal run of at least minLen
\* characters of the set becomes `by`
ReplaceRuns(s, set, minLen, by) ==
    LET back[i \in 0..Len(s)] ==
            IF i = 0 THEN 0 ELSE IF s[i] \in set THEN back[i - 1] + 1 ELSE 0
        fwd[i \in 1..(Len(s) + 1)] ==
            IF i = Len(s) + 1 THEN 0 ELSE IF s[i] \in set THEN fwd[i + 1] + 1 ELSE 0
    IN  Flatten([i \in 1..Len(s) |->
                    IF s[i] \notin set \/ back[i] + fwd[i] - 1 < minLen THEN <<s[i]>>
                    ELSE IF back[i] = 1 THEN by
                    ELSE <<>>])

\* s.replace(/[set]/g, by)
ReplaceChars(s, set, by) ==
    Flatten([i \in 1..Len(s) |-> IF s[i] \in set THEN by ELSE <<s[i]>>])

\* ^ of a multiline regular expression matches at p
LineTerminators == {"\n", "\r", "<ls>", "<ps>"}
LineStart(s, p) == p = 1 \/ s[p - 1] \in LineTerminators
LineEnd(s, p) == p = Len(s) \/ s[p + 1] \in LineTerminators

\* first index at or after p whose character is not whitespace, Len(s)+1 if none
SkipSpace(s, p) ==
    LET rest == {q \in p..Len(s) : s[q] \notin WhiteSpace}
    IN  IF rest = {} THEN Len(s) + 1 ELSE Min(rest)

\* /^\s*[glyphs]\s*/m tried at position p: the index after the match, 0 if none
BulletMatchEnd(s, p, glyphs) ==
    IF ~LineStart(s, p) THEN 0
    ELSE LET q == SkipSpace(s, p)
         IN  IF q <= Len(s) /\ s[q] \in glyphs THEN SkipSpace(s, q + 1) ELSE 0

\* /^\s*[glyphs]\s*/gm .test(s) on a fresh expression
BulletTest(s, glyphs) == \E p \in 1..Len(s) : BulletMatchEnd(s, p, glyphs) # 0

\* s.replace(/^\s*[glyphs]\s*/gm, by), scanning from index `from`
RECURSIVE ReplaceBullets(_, _, _, _)
ReplaceBullets(s, from, glyphs, by) ==
    LET starts == {p \in from..Len(s) : BulletMatchEnd(s, p, glyphs) # 0}
    IN  IF starts = {} THEN SubSeq(s, from, Len(s))
        ELSE LET p == Min(starts)
             IN  SubSeq(s, from, p - 1) \o by
                   \o ReplaceBullets(s, BulletMatchEnd(s, p, glyphs), glyphs, by)

(***************************************************************************)
(* ats-optimizer.ts: the optimization stages                               *)
(***************************************************************************)
Record(type, before, after) == [type |-> type, beforeSample |-> before, afterSample |-> after]

\* returns the text and the records appended to `optimizations`
applyStructuralOptimizations(text) ==
    LET a == ReplaceRuns(text, {"\n"}, 3, <<"\n", "\n">>)
        b == ReplaceRuns(a, {" ", "\t"}, 2, <<" ">>)
        r1 == IF Len(b) # Len(text) THEN <<Record("formatting_cleaned", <<>>, <<>>)>> ELSE <<>>
        hit == BulletTest(b, BulletGlyphs10)
        c == IF hit THEN ReplaceBullets(b, 1, BulletGlyphs10, <<"<bullet>", " ">>) ELSE b
        r2 == IF hit THEN <<Record("formatting_cleaned", <<>>, <<>>)>> ELSE <<>>
    IN  [text |-> c, records |-> r1 \o r2]

\* the sections are visited from the last to the first
RECURSIVE standardizeSectionHeadings(_, _, _)
standardizeSectionHeadings(text, sections, i) ==
    IF i = 0 THEN [text |-> text, records |-> <<>>]
    ELSE LET section == sections[i]
         IN  IF section.title # section.standardTitle
             THEN LET rest == standardizeSectionHeadings(
                                 replaceFirst(text, section.title, section.standardTitle),
                                 sections, i - 1)
                  IN  [text |-> rest.text,
                       records |-> <<Record("heading_standardized", section.title,
                                            section.standardTitle)>> \o rest.records]
             ELSE standardizeSectionHeadings(text, sections, i - 1)

\* [""''‚„…–—] as the source file spells it
SpecialChars == {"\"", "'", "<lowquote>", "<lowdquote>", "<ellipsis>", "<endash>", "<emdash>"}

\* the expression is created once and shared by every call
SharedLastIndex(left) == left

\* lastIndex of a regular expression created by a literal in a function body:
\* every call evaluates the literal again and gets a new object
FreshLastIndex(left) == 0

\* specialChars.test(cleaned) starting at lastIndex (0-based): the lastIndex
\* it leaves, 0 when nothing is found
SpecialTest(s, lastIndex) ==
    LET hits == {k \in (lastIndex + 1)..Len(s) : s[k] \in SpecialChars}
    IN  IF hits = {} THEN 0 ELSE Min(hits)

cleanFormatting(text, lastIndex) ==
    LET found == SpecialTest(text, lastIndex)
        a == ReplaceChars(text, {"\""}, <<"\"">>)
        b == ReplaceChars(a, {"'", "<lowquote>"}, <<"'">>)
        c == ReplaceChars(b, {"<ellipsis>"}, <<".", ".", ".">>)
        d == ReplaceChars(c, {"<endash>", "<emdash>"}, <<"-">>)
    IN  IF found # 0
        THEN [text |-> d, records |-> <<Record("formatting_cleaned", <<>>, <<>>)>>,
              lastIndex |-> found]
        ELSE [text |-> text, records |-> <<>>, lastIndex |-> 0]

ensureSingleColumnLayout(text) ==
    IF \E i \in 1..Len(text) : text[i] = "\t"
    THEN [text |-> ReplaceRuns(text, {"\t"}, 1, <<" ">>),
          records |-> <<Record("structure_improved", <<>>, <<>>)>>]
    ELSE [text |-> text, records |-> <<>>]

\* /\b[A-Za-z0-9._%+-]+@[A-Za-z0-9.-]+\.[A-Z|a-z]{2,}\b/.test(text)
WordChars == LetterSet \cup DigitSet \cup {"_"}
EmailLocalChars == LetterSet \cup DigitSet \cup {".", "_", "%", "+", "-"}
EmailDomainChars == LetterSet \cup DigitSet \cup {".", "-"}
EmailTldChars == LetterSet \cup {"|"}
IsWordAt(s, i) == i >= 1 /\ i <= Len(s) /\ s[i] \in WordChars
WordBoundary(s, i) == IsWordAt(s, i - 1) # IsWordAt(s, i)
emailPatternTest(s) ==
    \E at \in 1..Len(s) :
        /\ s[at] = "@"
        /\ \E i \in 1..(at - 1) :
              /\ WordBoundary(s, i)
              /\ \A k \in i..(at - 1) : s[k] \in EmailLocalChars
        /\ \E d \in (at + 2)..Len(s) :
              /\ s[d] = "."
              /\ \A k \in (at + 1)..(d - 1) : s[k] \in EmailDomainChars
              /\ \E e \in (d + 2)..Len(s) :
                    /\ \A k \in (d + 1)..e : s[k] \in EmailTldChars
                    /\ WordBoundary(s, e + 1)

Warning(kind, section) == [warning |-> kind, section |-> section]

ShortResumeWords == 100

validateATSCompliance(text, sections) ==
    LET detectedSectionTypes ==
            {k \in {SectionKeys[n] : n \in 1..Len(SectionKeys)} :
                \E n \in 1..Len(sections) : sections[n].standardTitle = STANDARD_SECTIONS[k]}
        essentialSections == <<"WORK_EXPERIENCE", "EDUCATION">>
        w1 == IF countWords(text) < ShortResumeWords THEN <<Warning("short_resume", <<>>)>> ELSE <<>>
        w2 == Flatten([n \in 1..Len(essentialSections) |->
                        IF essentialSections[n] \notin detectedSectionTypes
                        THEN <<Warning("missing_section", STANDARD_SECTIONS[essentialSections[n]])>>
                        ELSE <<>>])
        w3 == IF ~emailPatternTest(text) THEN <<Warning("no_email", <<>>)>> ELSE <<>>
    IN  w1 \o w2 \o w3

\* parsedDocument is [text, wordCount, source]; lastIndex is the state of the
\* specialChars expression the call starts with
optimizeForATS(parsedDocument, lastIndex) ==
    With(detectSections(parsedDocument.text), LAMBDA sections :
    With(applyStructuralOptimizations(parsedDocument.text), LAMBDA s2 :
    With(standardizeSectionHeadings(s2.text, sections, Len(sections)), LAMBDA s3 :
    With(cleanFormatting(s3.text, FreshLastIndex(lastIndex)), LAMBDA s4 :
    With(ensureSingleColumnLayout(s4.text), LAMBDA s5 :
    With(s2.records \o s3.records \o s4.records \o s5.records, LAMBDA optimizations :
        [content |-> s5.text,
         sections |-> sections,
         optimizations |-> optimizations,
         statistics |->
            [originalWordCount |-> parsedDocument.wordCount,
             optimizedWordCount |-> countWords(s5.text),
             sectionsStandardized |->
                Len(SelectSeq(optimizations, LAMBDA o : o.type = "heading_standardized")),
             issuesFixed |-> Len(optimizations)],
         warnings |-> validateATSCompliance(s5.text, sections),
         steps |-> [structural |-> s2.text, standardized |-> s3.text,
                    cleaned |-> s4.text, singleColumn |-> s5.text],
         lastIndex |-> s4.lastIndex]))))))

(***************************************************************************)
(* docx-generator.ts                                                       *)
(***************************************************************************)
Paragraph(style, text) == [style |-> style, text |-> text]

\* [•\-*] at the start of a trimmed line
DocxBulletChars == {"<bullet>", "-", "*"}

\* trimmedLine.replace(/^[•\-*]\s*/, '')
StripBullet(line) ==
    IF Len(line) > 0 /\ line[1] \in DocxBulletChars
    THEN SubSeq(line, SkipSpace(line, 2), Len(line))
    ELSE line

BodyParagraph(trimmedLine) ==
    IF trimmedLine[1] \in DocxBulletChars
    THEN Paragraph("bullet", StripBullet(trimmedLine))
    ELSE Paragraph("paragraph", trimmedLine)

\* /^[A-Z\s]{3,30}$/.test(trimmedLine) && trimmedLine.length < 50
DocxIsHeading(trimmedLine) ==
    /\ Len(trimmedLine) >= 3 /\ Len(trimmedLine) <= 30
    /\ \A i \in 1..Len(trimmedLine) : trimmedLine[i] \in UpperSet \cup WhiteSpace
    /\ Len(trimmedLine) < 50

\* the children of the document handed to Packer.toBuffer
generateDOCX(optimizedDocument) ==
    LET sections == optimizedDocument.sections
        SectionParagraphs(section) ==
            LET all == split(section.content, "\n")
                sectionLines == SelectSeq(all, LAMBDA l : Len(trim(l)) > 0)
            IN  <<Paragraph("heading", section.standardTitle)>>
                  \o [k \in 1..Len(sectionLines) |-> BodyParagraph(trim(sectionLines[k]))]
                  \o <<Paragraph("spacer", <<>>)>>
        lines == split(optimizedDocument.content, "\n")
        LineParagraph(line) ==
            LET trimmedLine == trim(line)
            IN  IF Len(trimmedLine) = 0 THEN Paragraph("spacer", <<>>)
                ELSE IF DocxIsHeading(trimmedLine) THEN Paragraph("heading", trimmedLine)
                ELSE BodyParagraph(trimmedLine)
    IN  IF Len(sections) = 0
        THEN [k \in 1..Len(lines) |-> LineParagraph(lines[k])]
        ELSE Flatten([k \in 1..Len(sections) |-> SectionParagraphs(sections[k])])

(***************************************************************************)
(* file-validation.ts: download options                                    *)
(***************************************************************************)
\* the fixed instruction block that formatForWord puts before the content
WordInstructions == <<"<word-instructions>", "\n", "\n">>

\* formatted.replace(new RegExp(`^${title}$`, 'gm'), `\n${title}\n`)
SpaceHeading(s, title) ==
    Flatten([i \in 1..Len(s) |->
        IF OccursAt(s, title, i) /\ LineStart(s, i) /\ LineEnd(s, i + Len(title) - 1)
        THEN <<"\n", s[i]>>
        ELSE IF i >= Len(title)
                /\ OccursAt(s, title, i - Len(title) + 1)
                /\ LineStart(s, i - Len(title) + 1) /\ LineEnd(s, i)
        THEN <<s[i], "\n">>
        ELSE <<s[i]>>])

RECURSIVE SpaceHeadings(_, _, _)
SpaceHeadings(s, sections, k) ==
    IF k > Len(sections) THEN s
    ELSE SpaceHeadings(SpaceHeading(s, sections[k].standardTitle), sections, k + 1)

formatForWord(content, sections) == SpaceHeadings(WordInstructions \o content, sections, 1)

DownloadOption(format, label, content) == [format |-> format, label |-> label, content |-> content]

\* the writer's exception is not caught: no option outlives it
generateDownloadOptionsUncaught(optimizedDocument, supported, writerOk) ==
    IF supported /\ writerOk
    THEN <<DownloadOption("txt", "Plain Text (.txt)", optimizedDocument.content),
           DownloadOption("docx", "Microsoft Word (.docx)", generateDOCX(optimizedDocument))>>
    ELSE <<>>

\* supported: isDOCXGenerationSupported(); writerOk: generateDOCX did not throw
generateDownloadOptions(optimizedDocument, supported, writerOk) ==
    LET content == optimizedDocument.content
        txt == DownloadOption("txt", "Plain Text (.txt)", content)
    IN  IF supported /\ writerOk
        THEN <<txt, DownloadOption("docx", "Microsoft Word (.docx)",
                                   generateDOCX(optimizedDocument))>>
        ELSE <<txt, DownloadOption("docx", "Word-ready Text (.txt)",
                                   formatForWord(content, optimizedDocument.sections))>>

(***************************************************************************)
(* template-engine.ts                                                      *)
(***************************************************************************)
\* a template is [sectionOrder, bullets, lineHeight, sectionSpacing, dividers];
\* lineHeight is in hundredths

\* only the standard title is compared
SlotMatchesExact(section, templateSection) == section.standardTitle = templateSection

\* section.standardTitle === templateSection ||
\* section.title.toLowerCase().includes(templateSection.toLowerCase())
SlotMatches(section, templateSection) ==
    \/ section.standardTitle = templateSection
    \/ includes(toLowerCase(section.title), toLowerCase(templateSection))

\* the order as indices into `sections`: placed, then remaining
RECURSIVE ReorderFrom(_, _, _, _, _)
ReorderFrom(sections, templateOrder, t, placed, remaining) ==
    IF t > Len(templateOrder) THEN placed \o remaining
    ELSE LET hits == {k \in 1..Len(remaining) :
                         SlotMatches(sections[remaining[k]], templateOrder[t])}
         IN  IF hits = {}
             THEN ReorderFrom(sections, templateOrder, t + 1, placed, remaining)
             ELSE LET k == Min(hits)
                  IN  ReorderFrom(sections, templateOrder, t + 1,
                                  Append(placed, remaining[k]),
                                  SubSeq(remaining, 1, k - 1)
                                    \o SubSeq(remaining, k + 1, Len(remaining)))

ReorderIndices(sections, templateOrder) ==
    ReorderFrom(sections, templateOrder, 1, <<>>, [k \in 1..Len(sections) |-> k])

reorderSections(sections, templateOrder) ==
    LET order == ReorderIndices(sections, templateOrder)
    IN  [k \in 1..Len(order) |-> sections[order[k]]]

\* [•\-\*] followed by one whitespace character at the start of a line
TemplateBulletChars == {"<bullet>", "-", "*"}

\* content.replace(/^[•\-\*]\s/gm, `${bullets} `)
RestyleBullets(s, bullets) ==
    Flatten([i \in 1..Len(s) |->
        IF LineStart(s, i) /\ s[i] \in TemplateBulletChars
           /\ i < Len(s) /\ s[i + 1] \in WhiteSpace
        THEN <<bullets>>
        ELSE IF i > 1 /\ LineStart(s, i - 1) /\ s[i - 1] \in TemplateBulletChars
                /\ s[i] \in WhiteSpace
        THEN <<" ">>
        ELSE <<s[i]>>])

\* content.replace(/\n\s*\n\s*\n/g, '\n\n'): in a whitespace run holding three
\* or more newlines, what lies from its first to its last newline becomes two
CollapseBlankLines(s) ==
    LET back[i \in 0..Len(s)] ==
            IF i = 0 THEN 0 ELSE IF s[i] \in WhiteSpace THEN back[i - 1] + 1 ELSE 0
        fwd[i \in 1..(Len(s) + 1)] ==
            IF i = Len(s) + 1 THEN 0 ELSE IF s[i] \in WhiteSpace THEN fwd[i + 1] + 1 ELSE 0
        newlines(i) == {j \in (i - back[i] + 1)..(i + fwd[i] - 1) : s[j] = "\n"}
    IN  Flatten([i \in 1..Len(s) |->
            IF s[i] \notin WhiteSpace \/ Cardinality(newlines(i)) < 3 THEN <<s[i]>>
            ELSE IF i < Min(newlines(i)) \/ i > Max(newlines(i)) THEN <<s[i]>>
            ELSE IF i = Min(newlines(i)) THEN <<"\n", "\n">>
            ELSE <<>>])

\* formatting.spacing.lineHeight > 1.2
WideLineHeight == 120

formatSection(section, template, order) ==
    LET a == IF template.bullets # "" /\ template.bullets # "<bullet>"
             THEN RestyleBullets(section.content, template.bullets)
             ELSE section.content
        b == IF template.lineHeight > WideLineHeight
             THEN ReplaceChars(a, {"\n"}, <<"\n", "\n">>)
             ELSE a
        c == CollapseBlankLines(b)
    IN  [id |-> order, title |-> section.standardTitle, content |-> trim(c),
         order |-> order, formatted |-> TRUE]

Repeat(c, n) == [i \in 1..n |-> c]

\* Math.max(1, Math.floor(sectionSpacing / 6))
SpacingLines(template) ==
    IF template.sectionSpacing \div 6 > 1 THEN template.sectionSpacing \div 6 ELSE 1

generateFormattedContent(sections, template) ==
    trim(Flatten([i \in 1..Len(sections) |->
        toUpperCase(sections[i].title) \o <<"\n">>
          \o (IF template.dividers /\ i > 1
              THEN Repeat("<rule>", Len(sections[i].title)) \o <<"\n">>
              ELSE <<>>)
          \o sections[i].content
          \o (IF i < Len(sections) THEN Repeat("\n", SpacingLines(template) + 1) ELSE <<>>)]))

\* text.trim().split(/\s+/).length: an empty text splits into one empty word
templateCountWords(text) == IF countWords(text) = 0 THEN 1 ELSE countWords(text)

applyTemplate(document, template) ==
    With(reorderSections(document.sections, template.sectionOrder), LAMBDA orderedSections :
    With([k \in 1..Len(orderedSections) |->
             formatSection(orderedSections[k], template, k - 1)], LAMBDA templatedSections :
    With(generateFormattedContent(templatedSections, template), LAMBDA formattedContent :
        [content |-> formattedContent,
         orderedSections |-> orderedSections,
         template |-> template,
         sections |-> templatedSections,
         metadata |-> [wordCount |-> templateCountWords(formattedContent),
                       sectionCount |-> Len(templatedSections)]])))

(***************************************************************************)
(* parsers/pdf-parser.ts and parsers/docx-parser.ts: text cleaning         *)
(***************************************************************************)
\* s.replace(/\r\n/g, '\n')
ReplaceCRLF(s) ==
    SelectSeq([i \in 1..Len(s) |->
                  IF s[i] = "\r" /\ i < Len(s) /\ s[i + 1] = "\n" THEN "<drop>" ELSE s[i]],
              LAMBDA c : c # "<drop>")

\* s.replace(/([left])([right])/g, '$1 $2') for disjoint left and right
InsertSpaceBetween(s, left, right) ==
    Flatten([i \in 1..Len(s) |->
        IF s[i] \in left /\ i < Len(s) /\ s[i + 1] \in right
        THEN <<s[i], " ">> ELSE <<s[i]>>])

\* index after the maximal run of characters of `set` starting at q, 0 if empty
RunEnd(s, q, set) ==
    LET stops == {r \in q..Len(s) : s[r] \notin set}
        r == IF stops = {} THEN Len(s) + 1 ELSE Min(stops)
    IN  IF r > q THEN r ELSE 0

\* /Page\s+\d+/i tried at q: the index after the match, 0 if none
PageCoreEnd(s, q) ==
    IF q + 3 <= Len(s) /\ toLowerCase(SubSeq(s, q, q + 3)) = <<"p", "a", "g", "e">>
    THEN LET w == RunEnd(s, q + 4, WhiteSpace)
         IN  IF w = 0 THEN 0 ELSE RunEnd(s, w, DigitSet)
    ELSE 0

\* /^\s*CORE\s*$/m tried at p, where coreEnd is the index after CORE: the
\* index after the match, 0 if none
LineMatchEnd(s, p, coreEnd) ==
    IF ~LineStart(s, p) \/ coreEnd = 0 THEN 0
    ELSE LET w == SkipSpace(s, coreEnd)
             ends == {e \in coreEnd..(w - 1) : s[e] \in LineTerminators}
         IN  IF w = Len(s) + 1 THEN w
             ELSE IF ends = {} THEN 0
             ELSE Max(ends)

\* s.replace(re, '') for a global expression whose match at p ends at ends[p]
RECURSIVE RemoveMatches(_, _, _)
RemoveMatches(s, ends, from) ==
    LET starts == {p \in from..Len(s) : ends[p] # 0}
    IN  IF starts = {} THEN SubSeq(s, from, Len(s))
        ELSE LET p == Min(starts)
             IN  SubSeq(s, from, p - 1) \o RemoveMatches(s, ends, ends[p])

\* s.replace(/^\s*Page\s+\d+\s*$/gim, '')
RemovePageLines(s) ==
    RemoveMatches(s, [p \in 1..Len(s) |->
                        LineMatchEnd(s, p, PageCoreEnd(s, SkipSpace(s, p)))], 1)

\* s.replace(/^\s*[set]+\s*$/gm, '')
RemoveRunLines(s, set) ==
    RemoveMatches(s, [p \in 1..Len(s) |->
                        LineMatchEnd(s, p, RunEnd(s, SkipSpace(s, p), set))], 1)

\* .replace(/^\n+/, '').replace(/\n+$/, '')
StripNewlines(s) ==
    LET keep == {i \in 1..Len(s) : s[i] # "\n"}
    IN  IF keep = {} THEN <<>> ELSE SubSeq(s, Min(keep), Max(keep))

TrimLines(s) ==
    LET lines == split(s, "\n")
    IN  [k \in 1..Len(lines) |-> trim(lines[k])]

\* the steps the two cleaners share, up to bullet standardization
CleanCommon(rawText) ==
    LET a == ReplaceCRLF(rawText)
        b == ReplaceChars(a, {"\r"}, <<"\n">>)
        c == ReplaceRuns(b, {"\n"}, 3, <<"\n", "\n">>)
        d == ReplaceRuns(c, {" ", "\t"}, 2, <<" ">>)
        e == ReplaceChars(d, {"\f"}, <<"\n">>)
        f == SelectSeq(e, LAMBDA ch : ch \notin ControlChars)
        g == InsertSpaceBetween(f, LowerSet, UpperSet)
        h == InsertSpaceBetween(g, DigitSet, LetterSet)
        i == InsertSpaceBetween(h, LetterSet, DigitSet)
        j == ReplaceChars(i, BulletGlyphs8, <<"<bullet>">>)
    IN  ReplaceBullets(j, 1, BulletGlyphs4, <<"<bullet>", " ">>)

cleanPDFText(rawText) ==
    LET a == CleanCommon(rawText)
        b == RemovePageLines(a)
        c == RemoveRunLines(b, DigitSet)
    IN  StripNewlines(join(TrimLines(c), <<"\n">>))

cleanDOCXText(rawText) ==
    LET a == CleanCommon(rawText)
        b == RemoveRunLines(a, {"_"})
        c == RemoveRunLines(b, {"-"})
    IN  With(TrimLines(c), LAMBDA arr :
        With(SelectSeq([k \in 1..Len(arr) |->
                           [keep |-> Len(arr[k]) > 0 \/ (k > 1 /\ Len(arr[k - 1]) > 0),
                            line |-> arr[k]]],
                       LAMBDA f : f.keep), LAMBDA kept :
            StripNewlines(join([k \in 1..Len(kept) |-> kept[k].line], <<"\n">>))))

(***************************************************************************)
(* parsers: parsePDF, parseEnhancedDOCX, parseDocumentEnhanced             *)
(***************************************************************************)
MIN_WORD_COUNT == 50

ParsedDocument(text, source) == [text |-> text, wordCount |-> countWords(text), source |-> source]
ParseFailure(code) == [failed |-> TRUE, code |-> code, isError |-> FALSE]
ParseSuccess(document) == [failed |-> FALSE, document |-> document]

\* allText is the text pdf.js extracted; extracted = FALSE when it threw
parsePDF(allText, extracted) ==
    IF ~extracted THEN ParseFailure("PROCESSING_ERROR")
    ELSE IF Len(trim(allText)) = 0 THEN ParseFailure("FILE_CORRUPTED")
    ELSE ParseSuccess(ParsedDocument(cleanPDFText(allText), "pdf"))

\* value is the raw text mammoth extracted
parseEnhancedDOCX(value, extracted) ==
    IF ~extracted THEN ParseFailure("PROCESSING_ERROR")
    ELSE IF Len(trim(value)) = 0 THEN ParseFailure("FILE_CORRUPTED")
    ELSE ParseSuccess(ParsedDocument(cleanDOCXText(value), "docx"))

validateDOCXContent(parsedDocument) == parsedDocument.wordCount >= MIN_WORD_COUNT

\* file is [kind, raw]; the kind is what validateFile makes of the file
parseDocumentEnhanced(file, extracted) ==
    IF file.kind = "pdf" THEN parsePDF(file.raw, extracted)
    ELSE IF file.kind = "docx"
    THEN With(parseEnhancedDOCX(file.raw, extracted), LAMBDA enhanced :
             IF ~enhanced.failed /\ ~validateDOCXContent(enhanced.document)
             THEN [failed |-> TRUE, code |-> "INSUFFICIENT_CONTENT", isError |-> TRUE]
             ELSE enhanced)
    ELSE ParseFailure("INVALID_FILE_TYPE")

validatePDFContent(parsedDocument) == parsedDocument.wordCount >= MIN_WORD_COUNT

\* parseDOCX builds its text as parseEnhancedDOCX does, from extractRawText
parseDOCX(value, extracted) ==
    IF ~extracted THEN ParseFailure("PROCESSING_ERROR")
    ELSE IF Len(trim(value)) = 0 THEN ParseFailure("FILE_CORRUPTED")
    ELSE ParseSuccess(ParsedDocument(cleanDOCXText(value), "docx"))

\* the entry point that validates the content of both kinds
parseDocument(file, extracted) ==
    IF file.kind = "pdf"
    THEN With(parsePDF(file.raw, extracted), LAMBDA parsedDocument :
             IF ~parsedDocument.failed /\ ~validatePDFContent(parsedDocument.document)
             THEN [failed |-> TRUE, code |-> "INSUFFICIENT_CONTENT", isError |-> TRUE]
             ELSE parsedDocument)
    ELSE IF file.kind = "docx"
    THEN With(parseDOCX(file.raw, extracted), LAMBDA parsedDocument :
             IF ~parsedDocument.failed /\ ~validateDOCXContent(parsedDocument.document)
             THEN [failed |-> TRUE, code |-> "INSUFFICIENT_CONTENT", isError |-> TRUE]
             ELSE parsedDocument)
    ELSE ParseFailure("INVALID_FILE_TYPE")

(***************************************************************************)
(* types/template.ts and template-definitions.ts                           *)
(***************************************************************************)
ATS_SECTIONS ==
    [ CONTACT |-> <<"C","o","n","t","a","c","t"," ","I","n","f","o","r","m","a","t","i","o","n">>,
      SUMMARY |-> <<"P","r","o","f","e","s","s","i","o","n","a","l"," ","S","u","m","m","a","r","y">>,
      EXPERIENCE |-> <<"W","o","r","k"," ","E","x","p","e","r","i","e","n","c","e">>,
      EDUCATION |-> <<"E","d","u","c","a","t","i","o","n">>,
      SKILLS |-> <<"T","e","c","h","n","i","c","a","l"," ","S","k","i","l","l","s">>,
      CERTIFICATIONS |-> <<"C","e","r","t","i","f","i","c","a","t","i","o","n","s">>,
      PROJECTS |-> <<"P","r","o","j","e","c","t","s">> ]

Template(order, bullets, lineHeight, sectionSpacing, dividers) ==
    [sectionOrder |-> order, bullets |-> bullets, lineHeight |-> lineHeight,
     sectionSpacing |-> sectionSpacing, dividers |-> dividers]

\* two of RESUME_TEMPLATES: 'tech-focused' and 'minimalist-ats'
TechFocused ==
    Template(<<ATS_SECTIONS.CONTACT, ATS_SECTIONS.SUMMARY, ATS_SECTIONS.SKILLS,
               ATS_SECTIONS.PROJECTS, ATS_SECTIONS.EXPERIENCE, ATS_SECTIONS.EDUCATION,
               ATS_SECTIONS.CERTIFICATIONS>>, "<arrow>", 125, 12, TRUE)
MinimalistATS ==
    Template(<<ATS_SECTIONS.CONTACT, ATS_SECTIONS.SUMMARY, ATS_SECTIONS.EXPERIENCE,
               ATS_SECTIONS.EDUCATION, ATS_SECTIONS.SKILLS>>, "-", 100, 8, FALSE)

(***************************************************************************)
(* Inputs                                                                  *)
(***************************************************************************)
\* lines of the documents given to optimizeForATS
DocLines ==
    { <<"E","x","p","e","r","i","e","n","c","e">>,
      <<"E","x","p","e","r","i","e","n","c","e"," ","x",".">>,
      <<"S","k","i","l","l","s">>,
      <<"L","a","n","g","u","a","g","e"," ","S","k","i","l","l","s">>,
      <<"J","o","h","n"," ","D","o","e">>,
      <<"d","i","d"," ","x">>,
      <<"<whitecircle>"," ","a","<endash>","b","\t","c">>,
      <<>> }

LineSeqs == UNION {[1..n -> DocLines] : n \in 1..MaxLines}
ParsedDocs == {ParsedDocument(join(ls, <<"\n">>), "pdf") : ls \in LineSeqs}

\* the resume of the specification's first example, line by line
Example1 == <<<<"W","O","R","K"," ","H","I","S","T","O","R","Y">>,
              <<"D","i","d"," ","X">>,
              <<"E","D","U","C","A","T","I","O","N">>,
              <<"B","S"," ","C","S">>>>

\* lines of the documents built around the example: its own lines, a heading
\* typed with two spaces, a summary heading, the tabular line of the third
\* example and one with a wider gap
ExampleLines ==
    {Example1[k] : k \in 1..Len(Example1)}
        \cup { <<"W","O","R","K"," "," ","H","I","S","T","O","R","Y">>,
               <<"S","u","m","m","a","r","y">>,
               <<"N","a","m","e","\t","T","i","t","l","e","\t","D","a","t","e">>,
               <<"N","a","m","e","\t","\t","D","a","t","e">> }

\* the first example and every shorter document over these lines
ExampleDocs ==
    {ParsedDocument(join(ls, <<"\n">>), "docx") :
        ls \in {Example1} \cup UNION {[1..n -> ExampleLines] : n \in 1..MaxLines}}

\* sectionOrder of the templates a caller builds itself
SlotLabels == {STANDARD_SECTIONS.SKILLS, STANDARD_SECTIONS.LANGUAGES,
               STANDARD_SECTIONS.WORK_EXPERIENCE}
SlotOrders == UNION {[1..n -> SlotLabels] : n \in 1..MaxSlots}
Templates == {TechFocused, MinimalistATS}
               \cup {Template(o, "<bullet>", 115, 12, FALSE) : o \in SlotOrders}

\* fifty one-letter words
Body50 == [i \in 1..99 |-> IF i % 2 = 1 THEN "w" ELSE " "]

\* pieces of the text the extraction library returns for an uploaded file
RawPieces ==
    { <<"W","o","r","k">>,
      <<"H","i","s","t","o","r","y">>,
      <<"7">>,
      <<"\n">>,
      <<" ","\n"," ">>,
      <<"\f">>,
      Body50 }

PieceSeqs == UNION {[1..n -> RawPieces] : n \in 0..MaxPieces}
Uploads == {[kind |-> k, raw |-> Flatten(ps)] : k \in {"pdf", "docx", "other"}, ps \in PieceSeqs}

(***************************************************************************)
(* The editor: EditorInterface, SectionManager and ResumeEditor, and the   *)
(* browser storage that they, ThemeProvider and DataClearanceManager use   *)
(***************************************************************************)
SECTION_TEMPLATES == <<
    [id |-> "contact", title |-> <<"C", "o", "n", "t", "a", "c", "t", " ", "I", "n", "f",
     "o", "r", "m", "a", "t", "i", "o", "n">>, standardTitle |-> <<"C", "O", "N", "T",
     "A", "C", "T", " ", "I", "N", "F", "O", "R", "M", "A", "T", "I", "O", "N">>,
     placeholder |-> <<"F", "u", "l", "l", " ", "N", "a", "m", "e", "\n", "P", "h", "o",
     "n", "e", " ", "N", "u", "m", "b", "e", "r", "\n", "E", "m", "a", "i", "l", " ", "A",
     "d", "d", "r", "e", "s", "s", "\n", "L", "i", "n", "k", "e", "d", "I", "n", " ", "P",
     "r", "o", "f", "i", "l", "e", "\n", "L", "o", "c", "a", "t", "i", "o", "n">>,
     isRequired |-> TRUE],
    [id |-> "summary", title |-> <<"P", "r", "o", "f", "e", "s", "s", "i", "o", "n", "a",
     "l", " ", "S", "u", "m", "m", "a", "r", "y">>, standardTitle |-> <<"P", "R", "O",
     "F", "E", "S", "S", "I", "O", "N", "A", "L", " ", "S", "U", "M", "M", "A", "R",
     "Y">>, placeholder |-> <<"E", "x", "p", "e", "r", "i", "e", "n", "c", "e", "d", " ",
     "p", "r", "o", "f", "e", "s", "s", "i", "o", "n", "a", "l", " ", "w", "i", "t", "h",
     " ", "e", "x", "p", "e", "r", "t", "i", "s", "e", " ", "i", "n", ".", ".", ".">>,
     isRequired |-> TRUE],
    [id |-> "experience", title |-> <<"W", "o", "r", "k", " ", "E", "x", "p", "e", "r",
     "i", "e", "n", "c", "e">>, standardTitle |-> <<"W", "O", "R", "K", " ", "E", "X",
     "P", "E", "R", "I", "E", "N", "C", "E">>, placeholder |-> <<"J", "o", "b", " ", "T",
     "i", "t", "l", "e", " ", "|", " ", "C", "o", "m", "p", "a", "n", "y", " ", "N", "a",
     "m", "e", " ", "|", " ", "D", "a", "t", "e", "s", "\n", "<bullet>", " ", "A", "c",
     "h", "i", "e", "v", "e", "m", "e", "n", "t", " ", "w", "i", "t", "h", " ", "q", "u",
     "a", "n", "t", "i", "f", "i", "e", "d", " ", "r", "e", "s", "u", "l", "t", "s", "\n",
     "<bullet>", " ", "K", "e", "y", " ", "r", "e", "s", "p", "o", "n", "s", "i", "b",
     "i", "l", "i", "t", "y", " ", "o", "r", " ", "a", "c", "c", "o", "m", "p", "l", "i",
     "s", "h", "m", "e", "n", "t">>, isRequired |-> TRUE],
    [id |-> "education", title |-> <<"E", "d", "u", "c", "a", "t", "i", "o", "n">>,
     standardTitle |-> <<"E", "D", "U", "C", "A", "T", "I", "O", "N">>, placeholder |->
     <<"D", "e", "g", "r", "e", "e", " ", "|", " ", "I", "n", "s", "t", "i", "t", "u",
     "t", "i", "o", "n", " ", "|", " ", "Y", "e", "a", "r", "\n", "R", "e", "l", "e", "v",
     "a", "n", "t", " ", "c", "o", "u", "r", "s", "e", "w", "o", "r", "k", ",", " ", "h",
     "o", "n", "o", "r", "s", ",", " ", "o", "r", " ", "c", "e", "r", "t", "i", "f", "i",
     "c", "a", "t", "i", "o", "n", "s">>, isRequired |-> TRUE],
    [id |-> "skills", title |-> <<"S", "k", "i", "l", "l", "s">>, standardTitle |-> <<"S",
     "K", "I", "L", "L", "S">>, placeholder |-> <<"T", "e", "c", "h", "n", "i", "c", "a",
     "l", " ", "S", "k", "i", "l", "l", "s", ":", " ", "S", "o", "f", "t", "w", "a", "r",
     "e", ",", " ", "p", "r", "o", "g", "r", "a", "m", "m", "i", "n", "g", " ", "l", "a",
     "n", "g", "u", "a", "g", "e", "s", ",", " ", "t", "o", "o", "l", "s", "\n", "S", "o",
     "f", "t", " ", "S", "k", "i", "l", "l", "s", ":", " ", "L", "e", "a", "d", "e", "r",
     "s", "h", "i", "p", ",", " ", "c", "o", "m", "m", "u", "n", "i", "c", "a", "t", "i",
     "o", "n", ",", " ", "p", "r", "o", "j", "e", "c", "t", " ", "m", "a", "n", "a", "g",
     "e", "m", "e", "n", "t">>, isRequired |-> FALSE],
    [id |-> "certifications", title |-> <<"C", "e", "r", "t", "i", "f", "i", "c", "a",
     "t", "i", "o", "n", "s">>, standardTitle |-> <<"C", "E", "R", "T", "I", "F", "I",
     "C", "A", "T", "I", "O", "N", "S">>, placeholder |-> <<"C", "e", "r", "t", "i", "f",
     "i", "c", "a", "t", "i", "o", "n", " ", "N", "a", "m", "e", " ", "|", " ", "I", "s",
     "s", "u", "i", "n", "g", " ", "O", "r", "g", "a", "n", "i", "z", "a", "t", "i", "o",
     "n", " ", "|", " ", "D", "a", "t", "e", "\n", "C", "e", "r", "t", "i", "f", "i", "c",
     "a", "t", "i", "o", "n", " ", "N", "a", "m", "e", " ", "|", " ", "I", "s", "s", "u",
     "i", "n", "g", " ", "O", "r", "g", "a", "n", "i", "z", "a", "t", "i", "o", "n", " ",
     "|", " ", "D", "a", "t", "e">>, isRequired |-> FALSE],
    [id |-> "projects", title |-> <<"P", "r", "o", "j", "e", "c", "t", "s">>,
     standardTitle |-> <<"P", "R", "O", "J", "E", "C", "T", "S">>, placeholder |-> <<"P",
     "r", "o", "j", "e", "c", "t", " ", "N", "a", "m", "e", " ", "|", " ", "D", "a", "t",
     "e", "\n", "<bullet>", " ", "D", "e", "s", "c", "r", "i", "p", "t", "i", "o", "n",
     " ", "o", "f", " ", "p", "r", "o", "j", "e", "c", "t", " ", "a", "n", "d", " ", "y",
     "o", "u", "r", " ", "r", "o", "l", "e", "\n", "<bullet>", " ", "T", "e", "c", "h",
     "n", "o", "l", "o", "g", "i", "e", "s", " ", "u", "s", "e", "d", " ", "a", "n", "d",
     " ", "r", "e", "s", "u", "l", "t", "s", " ", "a", "c", "h", "i", "e", "v", "e",
     "d">>, isRequired |-> FALSE]
    >>


\* sections.find of getAvailableTemplates: the templates whose standardTitle
\* no section has yet
getAvailableTemplates(sections) ==
    {k \in 1..Len(SECTION_TEMPLATES) :
        \A i \in 1..Len(sections) :
            sections[i].standardTitle # SECTION_TEMPLATES[k].standardTitle}

\* the templates the user picks in the Add Section dialog
PickedTemplates == {"education", "skills"}

\* what the user types into the textarea of a section
EditingTexts == {<<"D", "i", "d", " ", "Y">>}

\* innerHTML of the rich-text editor after the user typed in it
EditorTexts == {<<"M", "y", " ", "C", "V">>}

\* processingResult.originalDocument.originalFileName || 'resume'
originalFileName == "resume"

\* Storage: a function from the keys present to their values
EmptyStorage == [key \in {} |-> <<>>]
setItem(storage, key, value) ==
    [k \in DOMAIN storage \cup {key} |-> IF k = key THEN value ELSE storage[k]]
removeItem(storage, key) == [k \in DOMAIN storage \ {key} |-> storage[k]]
hasItem(storage, key) == key \in DOMAIN storage

\* newSections.splice(source, 1) then newSections.splice(destination, 0, moved);
\* source and destination are 0-based
Reordered(sections, source, destination) ==
    LET without == SubSeq(sections, 1, source) \o SubSeq(sections, source + 2, Len(sections))
    IN  SubSeq(without, 1, destination) \o <<sections[source + 1]>>
          \o SubSeq(without, destination + 1, Len(without))

\* sections.filter((_, i) => i !== index), index 0-based
Without(sections, index) ==
    SubSeq(sections, 1, index) \o SubSeq(sections, index + 2, Len(sections))

\* the section handleAddSection builds from a template
NewSection(sections, template) ==
    [title |-> template.title, standardTitle |-> template.standardTitle,
     content |-> template.placeholder,
     startIndex |-> IF Len(sections) > 0 THEN sections[Len(sections)].startIndex + 1 ELSE 0,
     endIndex |-> IF Len(sections) > 0 THEN sections[Len(sections)].endIndex + 1 ELSE 0,
     confidence |-> 10]

\* the content is kept as it was before the section edit
RegeneratedContentStale(newSections) == currentContent

\* newSections.map(section => `${section.standardTitle}\n\n${section.content}`)
\*            .join('\n\n---\n\n')
RegeneratedContent(newSections) ==
    join([k \in 1..Len(newSections) |->
             newSections[k].standardTitle \o <<"\n", "\n">> \o newSections[k].content],
         <<"\n", "\n", "-", "-", "-", "\n", "\n">>)

\* the editorData that the auto-save and handleManualSave write; the timestamp
\* is not modelled
EditorData == [content |-> currentContent, sections |-> currentSections,
               originalFileName |-> originalFileName]

\* useState of ResumeEditor
InitialEditorState(content) ==
    [content |-> content, history |-> <<content>>, historyIndex |-> 0, hasChanges |-> FALSE]

\* the editor is not mounted
NoEditor ==
    /\ activeTab = "none"
    /\ currentContent = <<>>
    /\ currentSections = <<>>
    /\ hasUnsavedChanges = FALSE
    /\ lastSaved = "null"
    /\ isAutoSaving = FALSE
    /\ editingSectionId = <<>>
    /\ openedSection = <<>>
    /\ editingContent = <<>>
    /\ editorState = <<>>

LibraryName == {"pdfjs", "mammoth", "docx", "dnd"}

\* a LibraryModule as the constructor and cleanup() set it; loading is 0 for
\* null, or the id of the executeLoad call whose promise it holds
NoLibrary == [loaded |-> FALSE, loading |-> 0, module |-> "null"]

\* an UploadStatus: its state and its file, "none" for undefined
Status(state, file) == [state |-> state, file |-> file]

\* a place of FileUploadSection where no DocumentProcessor is rendered
NoProcessor ==
    [mounted |-> FALSE, autoStart |-> FALSE, isProcessing |-> FALSE,
     result |-> "null", error |-> FALSE]

\* the state a DocumentProcessor is mounted with
NewProcessor(autoStart) ==
    [mounted |-> TRUE, autoStart |-> autoStart, isProcessing |-> FALSE,
     result |-> "null", error |-> FALSE]

\* FileUploadSection as it is first rendered: the FileUploader alone
InitShell ==
    /\ uploadStatus = Status("idle", "none")
    /\ fileUploader = Status("idle", "none")
    /\ reading = <<>>
    /\ processingResult = "null"
    /\ isProcessing = FALSE
    /\ processors = [place \in 1..3 |-> NoProcessor]
    /\ processing = <<>>
    /\ called = <<>>
    /\ libraries = [name \in LibraryName |-> NoLibrary]
    /\ loads = {}
    /\ returned = <<>>

\* the page as it is loaded: ThemeProvider has stored the default theme
InitPage ==
    /\ NoEditor
    /\ localStorage = setItem(EmptyStorage, "theme", "stone")
    /\ sessionStorage = EmptyStorage
    /\ isAutoClearing = FALSE
    /\ delivered = <<>>
    /\ edits = 0
    /\ InitShell

(***************************************************************************)
(* State machine                                                           *)
(***************************************************************************)
Result == runs[Len(runs)]

\* typeof window !== 'undefined': processDocument throws before anything else
\* where there is no window
isDOCXGenerationSupported == TRUE

\* a ParsedDocument handed to the exported optimizeForATS
InitParsed ==
    /\ stage = "parsed"
    /\ upload = <<>>
    /\ doc \in {<<d>> : d \in ParsedDocs}
    /\ runs = <<>>
    /\ steps = <<>>
    /\ reState = 0
    /\ downloads = <<>>
    /\ templated = <<>>
    /\ error = <<>>
    /\ InitPage

\* one of the example documents handed to the exported optimizeForATS
InitExample ==
    /\ stage = "parsed"
    /\ upload = <<>>
    /\ doc \in {<<d>> : d \in ExampleDocs}
    /\ runs = <<>>
    /\ steps = <<>>
    /\ reState = 0
    /\ downloads = <<>>
    /\ templated = <<>>
    /\ error = <<>>
    /\ InitPage

\* a file handed to processDocument
Init ==
    /\ stage = "uploaded"
    /\ upload \in {<<u>> : u \in Uploads}
    /\ doc = <<>>
    /\ runs = <<>>
    /\ steps = <<>>
    /\ reState = 0
    /\ downloads = <<>>
    /\ templated = <<>>
    /\ error = <<>>
    /\ InitPage

\* processDocument, stage 1: parseDocumentEnhanced returns or throws; what is
\* thrown is wrapped in Error('Document processing failed: ...'), whose text
\* keeps the message of an Error and turns any other object into 'Unknown error'
Parse(extracted) ==
    /\ stage = "uploaded"
    /\ \E parsed \in {parseDocumentEnhanced(upload[1], extracted)} :
           IF parsed.failed
           THEN /\ stage' = "failed"
                /\ error' = <<[message |-> IF parsed.isError THEN parsed.code
                                           ELSE "Unknown error",
                               cause |-> parsed.code]>>
                /\ doc' = doc
           ELSE /\ stage' = "parsed"
                /\ doc' = <<parsed.document>>
                /\ error' = error
    /\ UNCHANGED <<upload, runs, steps, reState, downloads, templated>>
    /\ UNCHANGED <<editor, shell>>

\* processDocument, stage 2; a document may be processed again
Optimize ==
    /\ stage \in {"parsed", "optimized"}
    /\ Len(runs) < MaxRuns
    /\ \E optimized \in {optimizeForATS(doc[1], reState)} :
           /\ runs' = Append(runs, [content |-> optimized.content,
                                    sections |-> optimized.sections,
                                    optimizations |-> optimized.optimizations,
                                    statistics |-> optimized.statistics,
                                    warnings |-> optimized.warnings])
           /\ steps' = <<optimized.steps>>
           /\ reState' = optimized.lastIndex
    /\ stage' = "optimized"
    /\ UNCHANGED <<upload, doc, downloads, templated, error>>
    /\ UNCHANGED <<editor, shell>>

\* processDocument, stage 3; writerOk = FALSE when generateDOCX throws
GenerateDownloads(writerOk) ==
    /\ stage = "optimized"
    /\ downloads' = generateDownloadOptions(Result, isDOCXGenerationSupported, writerOk)
    /\ stage' = "complete"
    /\ UNCHANGED <<upload, doc, runs, steps, reState, templated, error>>
    /\ UNCHANGED <<editor, shell>>

ApplyTemplate(template) ==
    /\ stage = "optimized"
    /\ Len(runs) = 1
    /\ templated' = <<applyTemplate(Result, template)>>
    /\ stage' = "templated"
    /\ UNCHANGED <<upload, doc, runs, steps, reState, downloads, error>>
    /\ UNCHANGED <<editor, shell>>

Next ==
    \/ \E extracted \in BOOLEAN : Parse(extracted)
    \/ Optimize
    \/ \E writerOk \in BOOLEAN : GenerateDownloads(writerOk)

NextOpt ==
    \/ Optimize
    \/ \E writerOk \in BOOLEAN : GenerateDownloads(writerOk)
    \/ \E template \in Templates : ApplyTemplate(template)

\* processDocument on an uploaded file
Spec == Init /\ [][Next]_vars

\* optimizeForATS, generateDownloadOptions and applyTemplate on any document
SpecOpt == InitParsed /\ [][NextOpt]_vars

\* the same operations on the documents built around the first example
SpecExample == InitExample /\ [][NextOpt]_vars

\* lines that are and lines that are not headings
HeadingLines ==
    { <<"E","D","U","C","A","T","I","O","N">>, <<"S","u","m","m","a","r","y">>, <<"J","o","h","n"," ","D","o","e">>, <<"A","C","M","E",","," ","I","N","C">>, <<"e","d","u","c","a","t","i","o","n"," ","h","i","s","t","o","r","y">>,
      <<"s","k","i","l","l","s"," ","a","n","d"," ","t","o","o","l","s">>, <<"d","i","d"," ","x">>, <<"D","i","d"," ","X",".">>, <<"2","0","2","0">>, <<"2","0","1","9"," ","-"," ","P","r","e","s","e","n","t">>,
      <<"P","R","O","F","E","S","S","I","O","N","A","L"," ","E","X","P","E","R","I","E","N","C","E"," ","A","N","D"," ","C","A","R","E","E","R"," ","H","I","S","T","O","R","Y"," ","O","F"," ","J","O","H","N"," ","D","O","E">> }

\* documents of one or two such lines
HeadingDocs ==
    {ParsedDocument(join(ls, <<"\n">>), "docx") :
        ls \in {<<l>> : l \in HeadingLines} \cup (HeadingLines \X HeadingLines)}

\* one of these documents handed to the exported optimizeForATS
InitHeadings ==
    /\ stage = "parsed"
    /\ upload = <<>>
    /\ doc \in {<<d>> : d \in HeadingDocs}
    /\ runs = <<>>
    /\ steps = <<>>
    /\ reState = 0
    /\ downloads = <<>>
    /\ templated = <<>>
    /\ error = <<>>
    /\ InitPage

\* the same operations on the documents that probe the heading test
SpecHeadings == InitHeadings /\ [][NextOpt]_vars

\* the documents whose processing result is opened in the editor
EditorDocs ==
    {ParsedDocument(join(ls, <<"\n">>), "docx") :
        ls \in {Example1,
                <<<<"S", "k", "i", "l", "l", "s">>,
                  <<"p", "y", "t", "h", "o", "n", ",", " ", "s", "q", "l", ".">>,
                  <<"E", "D", "U", "C", "A", "T", "I", "O", "N">>,
                  <<"b", "s", " ", "c", "s", ",", " ", "m", "i", "t", ".">>>>}}

\* processDocument has completed on a freshly loaded page: the document was
\* optimized once and its download options were generated
InitEditor ==
    /\ stage = "complete"
    /\ upload = <<>>
    /\ doc \in {<<d>> : d \in EditorDocs}
    /\ \E optimized \in {optimizeForATS(doc[1], 0)} :
           /\ runs = <<[content |-> optimized.content,
                        sections |-> optimized.sections,
                        optimizations |-> optimized.optimizations,
                        statistics |-> optimized.statistics,
                        warnings |-> optimized.warnings]>>
           /\ steps = <<optimized.steps>>
           /\ reState = optimized.lastIndex
    /\ \E writerOk \in BOOLEAN :
           downloads = generateDownloadOptions(Result, isDOCXGenerationSupported, writerOk)
    /\ templated = <<>>
    /\ error = <<>>
    /\ InitPage

\* FileUploadSection.handleOpenEditor mounts EditorInterface on the completed
\* result: the useState initial values, then the effect that restores a saved
\* session of the same file; ResumeEditor takes its initial state from the
\* props of the first render
OpenEditor ==
    /\ stage = "complete"
    /\ stage' = "editing"
    /\ activeTab' = "editor"
    /\ IF /\ hasItem(localStorage, "claritycv-editor-session")
          /\ localStorage["claritycv-editor-session"].originalFileName = originalFileName
       THEN /\ currentContent' = localStorage["claritycv-editor-session"].content
            /\ currentSections' = localStorage["claritycv-editor-session"].sections
            /\ lastSaved' = "date"
       ELSE /\ currentContent' = Result.content
            /\ currentSections' = Result.sections
            /\ lastSaved' = "null"
    /\ hasUnsavedChanges' = FALSE
    /\ isAutoSaving' = FALSE
    /\ editingSectionId' = <<>>
    /\ openedSection' = <<>>
    /\ editingContent' = <<>>
    /\ editorState' = InitialEditorState(Result.content)
    /\ delivered' = <<>>
    /\ UNCHANGED <<pipeline, shell, localStorage, sessionStorage, isAutoClearing, edits>>

\* onBack: FileUploadSection.handleBackFromEditor unmounts the editor; the
\* cleanups of the effects clear the pending timers
handleBackFromEditor ==
    /\ stage = "editing"
    /\ stage' = "complete"
    /\ activeTab' = "none"
    /\ currentContent' = <<>>
    /\ currentSections' = <<>>
    /\ hasUnsavedChanges' = FALSE
    /\ lastSaved' = "null"
    /\ isAutoSaving' = FALSE
    /\ editingSectionId' = <<>>
    /\ openedSection' = <<>>
    /\ editingContent' = <<>>
    /\ editorState' = <<>>
    /\ delivered' = <<>>
    /\ UNCHANGED <<pipeline, shell, localStorage, sessionStorage, isAutoClearing, edits>>

\* setActiveTab: only the content of the active tab is mounted, so the
\* component shown starts from its initial state
setActiveTab(tab) ==
    /\ stage = "editing"
    /\ tab # activeTab
    /\ activeTab' = tab
    /\ editingSectionId' = <<>>
    /\ openedSection' = <<>>
    /\ editingContent' = <<>>
    /\ editorState' = IF tab = "editor" THEN InitialEditorState(currentContent) ELSE <<>>
    /\ delivered' = <<>>
    /\ UNCHANGED <<stage, pipeline, shell, currentContent, currentSections, hasUnsavedChanges,
                   lastSaved, isAutoSaving, localStorage, sessionStorage, isAutoClearing,
                   edits>>

\* handleContentChange, and the auto-save effect that runs on the new state
handleContentChange(newContent) ==
    /\ currentContent' = newContent
    /\ hasUnsavedChanges' = TRUE
    /\ isAutoSaving' = TRUE
    /\ UNCHANGED currentSections

\* handleSectionsChange, and the auto-save effect that runs on the new state
handleSectionsChange(newSections) ==
    /\ currentSections' = newSections
    /\ hasUnsavedChanges' = TRUE
    /\ currentContent' = RegeneratedContent(newSections)
    /\ isAutoSaving' = TRUE

SectionsShown == stage = "editing" /\ activeTab = "sections"

\* the card of the section being edited is rendered: its textarea and its
\* Save and Cancel buttons can be used
EditingShown ==
    /\ SectionsShown
    /\ editingSectionId # <<>>
    /\ editingSectionId[1] < Len(currentSections)

\* SectionManager.handleDragEnd; destination is << >> for a drop outside the list
handleDragEnd(source, destination) ==
    /\ SectionsShown
    /\ edits < MaxEdits
    /\ source \in 0..(Len(currentSections) - 1)
    /\ IF destination = <<>>
       THEN UNCHANGED <<currentSections, hasUnsavedChanges, currentContent, isAutoSaving,
                        edits>>
       ELSE /\ destination[1] \in 0..(Len(currentSections) - 1)
            /\ handleSectionsChange(Reordered(currentSections, source, destination[1]))
            /\ edits' = edits + 1
    /\ delivered' = <<>>
    /\ UNCHANGED <<stage, pipeline, shell, activeTab, lastSaved, editingSectionId, openedSection, editingContent,
                   editorState, localStorage, sessionStorage, isAutoClearing>>

\* SectionManager.handleEditSection, offered by every card that is not being edited
handleEditSection(index) ==
    /\ SectionsShown
    /\ index \in 0..(Len(currentSections) - 1)
    /\ editingSectionId # <<index>>
    /\ editingSectionId' = <<index>>
    /\ openedSection' = <<currentSections[index + 1]>>
    /\ editingContent' = currentSections[index + 1].content
    /\ delivered' = <<>>
    /\ UNCHANGED <<stage, pipeline, shell, activeTab, currentContent, currentSections,
                   hasUnsavedChanges, lastSaved, isAutoSaving, editorState, localStorage,
                   sessionStorage, isAutoClearing, edits>>

\* onChange of the textarea
setEditingContent(value) ==
    /\ EditingShown
    /\ value # editingContent
    /\ editingContent' = value
    /\ delivered' = <<>>
    /\ UNCHANGED <<stage, pipeline, shell, activeTab, currentContent, currentSections,
                   hasUnsavedChanges, lastSaved, isAutoSaving, editingSectionId, openedSection,
                   editorState, localStorage, sessionStorage, isAutoClearing, edits>>

\* SectionManager.handleSaveEdit
handleSaveEdit ==
    /\ EditingShown
    /\ edits < MaxEdits
    /\ handleSectionsChange([currentSections EXCEPT
                                ![editingSectionId[1] + 1].content = editingContent])
    /\ editingSectionId' = <<>>
    /\ openedSection' = <<>>
    /\ editingContent' = <<>>
    /\ edits' = edits + 1
    /\ delivered' = <<>>
    /\ UNCHANGED <<stage, pipeline, shell, activeTab, lastSaved, editorState, localStorage,
                   sessionStorage, isAutoClearing>>

\* SectionManager.handleCancelEdit
handleCancelEdit ==
    /\ EditingShown
    /\ editingSectionId' = <<>>
    /\ openedSection' = <<>>
    /\ editingContent' = <<>>
    /\ delivered' = <<>>
    /\ UNCHANGED <<stage, pipeline, shell, activeTab, currentContent, currentSections,
                   hasUnsavedChanges, lastSaved, isAutoSaving, editorState, localStorage,
                   sessionStorage, isAutoClearing, edits>>

\* SectionManager.handleDeleteSection, offered by every card that is not being edited
handleDeleteSection(index) ==
    /\ SectionsShown
    /\ edits < MaxEdits
    /\ index \in 0..(Len(currentSections) - 1)
    /\ editingSectionId # <<index>>
    /\ handleSectionsChange(Without(currentSections, index))
    /\ edits' = edits + 1
    /\ delivered' = <<>>
    /\ UNCHANGED <<stage, pipeline, shell, activeTab, lastSaved, editingSectionId, openedSection, editingContent,
                   editorState, localStorage, sessionStorage, isAutoClearing>>

\* SectionManager.handleAddSection on the k-th template, one of those the
\* dialog lists
handleAddSection(k) ==
    /\ SectionsShown
    /\ edits < MaxEdits
    /\ k \in getAvailableTemplates(currentSections)
    /\ handleSectionsChange(Append(currentSections,
                                   NewSection(currentSections, SECTION_TEMPLATES[k])))
    /\ edits' = edits + 1
    /\ delivered' = <<>>
    /\ UNCHANGED <<stage, pipeline, shell, activeTab, lastSaved, editingSectionId, openedSection, editingContent,
                   editorState, localStorage, sessionStorage, isAutoClearing>>

EditorShown == stage = "editing" /\ activeTab = "editor"

\* array.slice(start, end) for 0 <= start: end is cut to the length
slice(array, start, end) ==
    SubSeq(array, start + 1, IF end > Len(array) THEN Len(array) ELSE end)

\* array[index], 0-based; outside the array it is undefined, written as a text
\* of one token
At(array, index) ==
    IF index \in 0..(Len(array) - 1) THEN array[index + 1] ELSE <<"<undefined>">>

\* the updater of handleUndo
Undo(prev) ==
    [prev EXCEPT !.historyIndex = prev.historyIndex - 1,
                 !.content = At(prev.history, prev.historyIndex - 1),
                 !.hasChanges = TRUE]

\* the updater of handleRedo
Redo(prev) ==
    [prev EXCEPT !.historyIndex = prev.historyIndex + 1,
                 !.content = At(prev.history, prev.historyIndex + 1),
                 !.hasChanges = TRUE]

\* handleUndo or handleRedo of the render `rendered` called while the state is
\* prev: the condition reads the render, the updater reads the state
UndoRedo(event, rendered, prev) ==
    IF event = "undo"
    THEN IF rendered.historyIndex > 0 THEN Undo(prev) ELSE prev
    ELSE IF rendered.historyIndex < Len(rendered.history) - 1 THEN Redo(prev) ELSE prev

\* ResumeEditor.updateContent, called by onInput of the editable area
updateContent(newContent) ==
    /\ EditorShown
    /\ edits < MaxEdits
    /\ editorState' =
           [content |-> newContent,
            history |-> Append(slice(editorState.history, 0, editorState.historyIndex + 1),
                               newContent),
            historyIndex |-> Len(slice(editorState.history, 0, editorState.historyIndex + 1)),
            hasChanges |-> TRUE]
    /\ edits' = edits + 1
    /\ delivered' = <<>>
    /\ UNCHANGED <<stage, pipeline, shell, activeTab, currentContent, currentSections,
                   hasUnsavedChanges, lastSaved, isAutoSaving, editingSectionId, openedSection,
                   editingContent, localStorage, sessionStorage, isAutoClearing>>

\* ResumeEditor.handleUndo
handleUndo ==
    /\ EditorShown
    /\ editorState.historyIndex > 0
    /\ editorState' = Undo(editorState)
    /\ delivered' = <<>>
    /\ UNCHANGED <<stage, pipeline, shell, activeTab, currentContent, currentSections,
                   hasUnsavedChanges, lastSaved, isAutoSaving, editingSectionId, openedSection,
                   editingContent, localStorage, sessionStorage, isAutoClearing, edits>>

\* ResumeEditor.handleRedo
handleRedo ==
    /\ EditorShown
    /\ editorState.historyIndex < Len(editorState.history) - 1
    /\ editorState' = Redo(editorState)
    /\ delivered' = <<>>
    /\ UNCHANGED <<stage, pipeline, shell, activeTab, currentContent, currentSections,
                   hasUnsavedChanges, lastSaved, isAutoSaving, editingSectionId, openedSection,
                   editingContent, localStorage, sessionStorage, isAutoClearing, edits>>

\* two clicks on the Undo and Redo buttons handled before the component
\* renders again: both handlers are those of the same render, and a button
\* disabled in that render takes no click
HandledBeforeRender(first, second) ==
    /\ EditorShown
    /\ \A event \in {first, second} : UndoRedo(event, editorState, editorState) # editorState
    /\ editorState' = UndoRedo(second, editorState, UndoRedo(first, editorState, editorState))
    /\ delivered' = <<>>
    /\ UNCHANGED <<stage, pipeline, shell, activeTab, currentContent, currentSections,
                   hasUnsavedChanges, lastSaved, isAutoSaving, editingSectionId, openedSection,
                   editingContent, localStorage, sessionStorage, isAutoClearing, edits>>

\* ResumeEditor.handleSave: onSave is handleContentChange
handleSave ==
    /\ EditorShown
    /\ editorState.hasChanges
    /\ handleContentChange(editorState.content)
    /\ editorState' = [editorState EXCEPT !.hasChanges = FALSE]
    /\ delivered' = <<>>
    /\ UNCHANGED <<stage, pipeline, shell, activeTab, lastSaved, editingSectionId, openedSection, editingContent,
                   localStorage, sessionStorage, isAutoClearing, edits>>

\* the timer of ResumeEditor's auto-save effect, one second after a change
DraftAutoSave ==
    /\ EditorShown
    /\ editorState.hasChanges
    /\ localStorage' = setItem(localStorage, "claritycv-draft", editorState.content)
    /\ delivered' = <<>>
    /\ UNCHANGED <<stage, pipeline, shell, activeTab, currentContent, currentSections,
                   hasUnsavedChanges, lastSaved, isAutoSaving, editingSectionId, openedSection,
                   editingContent, editorState, sessionStorage, isAutoClearing, edits>>

\* the timer of EditorInterface's auto-save effect, two seconds after a change
AutoSave ==
    /\ stage = "editing"
    /\ hasUnsavedChanges
    /\ localStorage' = setItem(localStorage, "claritycv-editor-session", EditorData)
    /\ lastSaved' = "date"
    /\ hasUnsavedChanges' = FALSE
    /\ isAutoSaving' = FALSE
    /\ delivered' = <<>>
    /\ UNCHANGED <<stage, pipeline, shell, activeTab, currentContent, currentSections,
                   editingSectionId, openedSection, editingContent, editorState, sessionStorage,
                   isAutoClearing, edits>>

\* EditorInterface.handleManualSave; the button is disabled without unsaved
\* changes
handleManualSave ==
    /\ stage = "editing"
    /\ hasUnsavedChanges
    /\ localStorage' = setItem(localStorage, "claritycv-editor-session", EditorData)
    /\ lastSaved' = "date"
    /\ hasUnsavedChanges' = FALSE
    /\ delivered' = <<>>
    /\ UNCHANGED <<stage, pipeline, shell, activeTab, currentContent, currentSections,
                   isAutoSaving, editingSectionId, openedSection, editingContent, editorState,
                   sessionStorage, isAutoClearing, edits>>

\* updatedContent of handleDownload
UpdatedContent(format, downloadOption) ==
    IF format = "txt" THEN currentContent ELSE downloadOption.content

\* EditorInterface.handleDownload, from a button of the header or, with
\* 'docx', from the Download button of ResumeEditor
handleDownload(format) ==
    /\ stage = "editing"
    /\ \E k \in 1..Len(downloads) :
           /\ downloads[k].format = format
           /\ \A j \in 1..(k - 1) : downloads[j].format # format
           /\ delivered' = <<[format |-> format,
                              content |-> UpdatedContent(format, downloads[k])]>>
    /\ UNCHANGED <<stage, pipeline, shell, activeTab, currentContent, currentSections,
                   hasUnsavedChanges, lastSaved, isAutoSaving, editingSectionId, openedSection,
                   editingContent, editorState, localStorage, sessionStorage,
                   isAutoClearing, edits>>

\* EditorInterface.clearSession
clearSession ==
    /\ stage = "editing"
    /\ localStorage' = removeItem(localStorage, "claritycv-editor-session")
    /\ currentContent' = Result.content
    /\ currentSections' = Result.sections
    /\ hasUnsavedChanges' = FALSE
    /\ lastSaved' = "null"
    /\ delivered' = <<>>
    /\ UNCHANGED <<stage, pipeline, shell, activeTab, isAutoSaving, editingSectionId, openedSection,
                   editingContent, editorState, sessionStorage, isAutoClearing, edits>>

\* the Auto-clear button of DataClearanceManager
setIsAutoClearing ==
    /\ stage \in {"complete", "editing"}
    /\ isAutoClearing' = ~isAutoClearing
    /\ delivered' = <<>>
    /\ UNCHANGED <<stage, pipeline, shell, activeTab, currentContent, currentSections,
                   hasUnsavedChanges, lastSaved, isAutoSaving, editingSectionId, openedSection,
                   editingContent, editorState, localStorage, sessionStorage, edits>>

\* the keys that handleBeforeUnload removes
sensitiveKeys == {"editor-content", "editor-history", "file-cache", "processing-state"}

RemoveItems(storage, keys) == [k \in DOMAIN storage \ keys |-> storage[k]]

\* the page is closed: DataClearanceManager.handleBeforeUnload runs
handleBeforeUnload ==
    /\ stage \in {"complete", "editing"}
    /\ stage' = "closed"
    /\ IF isAutoClearing
       THEN /\ localStorage' = RemoveItems(localStorage, sensitiveKeys)
            /\ sessionStorage' = EmptyStorage
       ELSE UNCHANGED <<localStorage, sessionStorage>>
    /\ delivered' = <<>>
    /\ UNCHANGED <<pipeline, shell, activeTab, currentContent, currentSections, hasUnsavedChanges,
                   lastSaved, isAutoSaving, editingSectionId, openedSection, editingContent, editorState,
                   isAutoClearing, edits>>

NextEditor ==
    \/ OpenEditor
    \/ \E tab \in {"editor", "sections", "comparison"} : setActiveTab(tab)
    \/ \E source \in 0..(Len(currentSections) - 1) :
           \E destination \in {<<>>} \cup {<<d>> : d \in 0..(Len(currentSections) - 1)} :
               handleDragEnd(source, destination)
    \/ \E index \in 0..(Len(currentSections) - 1) : handleEditSection(index)
    \/ \E value \in EditingTexts : setEditingContent(value)
    \/ handleSaveEdit
    \/ handleCancelEdit
    \/ \E index \in 0..(Len(currentSections) - 1) : handleDeleteSection(index)
    \/ \E k \in {k \in 1..Len(SECTION_TEMPLATES) : SECTION_TEMPLATES[k].id \in PickedTemplates} :
           handleAddSection(k)
    \/ \E newContent \in EditorTexts : updateContent(newContent)
    \/ handleUndo
    \/ handleRedo
    \/ handleSave
    \/ AutoSave
    \/ handleManualSave
    \/ \E format \in {"txt", "docx"} : handleDownload(format)
    \/ clearSession

\* what is kept in the browser from loading the page to closing it
NextStorage ==
    \/ OpenEditor
    \/ handleBackFromEditor
    \/ \E tab \in {"editor", "sections", "comparison"} : setActiveTab(tab)
    \/ \E k \in {k \in 1..Len(SECTION_TEMPLATES) : SECTION_TEMPLATES[k].id \in PickedTemplates} :
           handleAddSection(k)
    \/ \E newContent \in EditorTexts : updateContent(newContent)
    \/ handleSave
    \/ DraftAutoSave
    \/ AutoSave
    \/ handleManualSave
    \/ clearSession
    \/ setIsAutoClearing
    \/ handleBeforeUnload

\* the ResumeEditor and its history
NextHistory ==
    \/ OpenEditor
    \/ \E tab \in {"editor", "sections"} : setActiveTab(tab)
    \/ \E newContent \in EditorTexts : updateContent(newContent)
    \/ handleUndo
    \/ handleRedo
    \/ \E first \in {"undo", "redo"} : \E second \in {"undo", "redo"} :
           HandledBeforeRender(first, second)
    \/ handleSave
    \/ DraftAutoSave
    \/ AutoSave

\* the editor on the result of a completed run
SpecEditor == InitEditor /\ [][NextEditor]_vars

\* the editor and the privacy controls, until the page is closed
SpecStorage == InitEditor /\ [][NextStorage]_vars

\* edits, undo and redo in the ResumeEditor
SpecHistory == InitEditor /\ [][NextHistory]_vars

\* edits and saves in the EditorInterface
NextSave ==
    \/ OpenEditor
    \/ \E tab \in {"editor", "sections"} : setActiveTab(tab)
    \/ \E k \in {k \in 1..Len(SECTION_TEMPLATES) : SECTION_TEMPLATES[k].id \in PickedTemplates} :
           handleAddSection(k)
    \/ \E index \in 0..(Len(currentSections) - 1) : handleDeleteSection(index)
    \/ \E newContent \in EditorTexts : updateContent(newContent)
    \/ handleSave
    \/ AutoSave
    \/ handleManualSave
    \/ clearSession

\* the timer of the auto-save effect fires two seconds after the last change
\* unless the effect is cleaned up before
SpecSave == InitEditor /\ [][NextSave]_vars /\ WF_vars(AutoSave)

(***************************************************************************)
(* The upload section: FileUploadSection, the useFileUpload hook, the      *)
(* FileUploader and the DocumentProcessor.  A file is known by its name,   *)
(* a ProcessingResult by the file it was computed from.                    *)
(***************************************************************************)
Files == {"a.pdf", "b.docx"}

\* {!isComplete && !processingResult && <FileUploader/>}
ShowsFileUploader(status, result) == status.state # "complete" /\ result = "null"

\* the conditions of the three places where a DocumentProcessor is rendered
ShowsProcessor(place, status, result, busy) ==
    CASE place = 1 -> status.state = "complete" /\ status.file # "none"
                         /\ result = "null" /\ ~busy
      [] place = 2 -> busy /\ status.file # "none"
      [] place = 3 -> result # "null"

\* what a DocumentProcessor shows
View(processor) ==
    IF processor.error THEN "error"
    ELSE IF processor.result # "null" THEN "result"
    ELSE IF processor.isProcessing THEN "processing"
    ELSE "ready"

\* the element at position k taken out of a sequence
Dropped(seq, k) == SubSeq(seq, 1, k - 1) \o SubSeq(seq, k + 1, Len(seq))

\* FileUploadSection renders again with the given state: a child whose
\* condition fails is unmounted, one whose condition begins to hold is mounted
\* with fresh state, and the useEffect of a processor mounted with autoStart
\* calls handleStartProcessing; a call of an unmounted child can no longer set
\* that child's state
Render(status, result, busy, uploader, procs, calls, reads) ==
    /\ uploadStatus' = status
    /\ processingResult' = result
    /\ isProcessing' = busy
    /\ fileUploader' = IF ~ShowsFileUploader(status, result) THEN Status("unmounted", "none")
                       ELSE IF uploader.state = "unmounted" THEN Status("idle", "none")
                       ELSE uploader
    /\ reading' = [k \in 1..Len(reads) |->
                     [reads[k] EXCEPT !.live = @ /\ ShowsFileUploader(status, result)]]
    /\ processors' = [place \in 1..3 |->
                        IF ~ShowsProcessor(place, status, result, busy) THEN NoProcessor
                        ELSE IF procs[place].mounted THEN procs[place]
                        ELSE IF place = 2 THEN [NewProcessor(TRUE) EXCEPT !.isProcessing = TRUE]
                        ELSE NewProcessor(FALSE)]
    /\ processing' = [k \in 1..Len(calls) |->
                        [calls[k] EXCEPT !.live = @ /\ procs[calls[k].place].mounted
                                             /\ ShowsProcessor(calls[k].place, status, result, busy)]]
                     \o (IF ShowsProcessor(2, status, result, busy) /\ ~procs[2].mounted
                         THEN <<[file |-> status.file, place |-> 2, live |-> TRUE]>>
                         ELSE <<>>)
    /\ Len(processing') <= MaxInFlight

\* FileUploader: a file is dropped or chosen; the read of an older file goes on
handleFileSelect(file) ==
    /\ stage = "page"
    /\ fileUploader.state # "unmounted"
    /\ Len(reading) < MaxInFlight
    /\ fileUploader' = Status("uploading", "none")
    /\ reading' = [k \in 1..Len(reading) |-> [reading[k] EXCEPT !.latest = FALSE]]
                      \o <<[file |-> file, live |-> TRUE, latest |-> TRUE]>>
    /\ called' = <<>>
    /\ UNCHANGED <<stage, pipeline, editor, lazyLoader, uploadStatus, processingResult, isProcessing,
                   processors, processing>>

\* FileUploader: the progress callback given to processUploadedFile
ReadProgress(k) ==
    /\ stage = "page"
    /\ k \in 1..Len(reading)
    /\ reading[k].live
    /\ fileUploader' = [fileUploader EXCEPT !.state = "processing"]
    /\ called' = <<>>
    /\ UNCHANGED <<stage, pipeline, editor, lazyLoader, uploadStatus, reading, processingResult,
                   isProcessing, processors, processing>>

\* FileUploader: processUploadedFile resolves (ok) or rejects, and
\* handleFileSelect goes on after its await; onFileProcessed and onError are
\* handleFileProcessed and handleError of useFileUpload
ReadSettled(k, ok) ==
    /\ stage = "page"
    /\ k \in 1..Len(reading)
    /\ called' = <<[callback |-> IF ok THEN "onFileProcessed" ELSE "onError",
                    file |-> reading[k].file]>>
    /\ Render(IF ok THEN Status("complete", reading[k].file) ELSE Status("error", "none"),
              processingResult, isProcessing,
              IF ~reading[k].live THEN fileUploader
              ELSE IF ok THEN Status("complete", reading[k].file)
              ELSE Status("error", "none"),
              processors, processing, Dropped(reading, k))
    /\ UNCHANGED <<stage, pipeline, editor, lazyLoader>>

\* FileUploader: Upload Different File, or Try Again
resetUpload ==
    /\ stage = "page"
    /\ fileUploader.state \in {"complete", "error"}
    /\ fileUploader' = Status("idle", "none")
    /\ reading' = [k \in 1..Len(reading) |-> [reading[k] EXCEPT !.latest = FALSE]]
    /\ called' = <<>>
    /\ UNCHANGED <<stage, pipeline, editor, lazyLoader, uploadStatus, processingResult, isProcessing,
                   processors, processing>>

\* FileUploadSection: the Start Processing button of the Ready to Process card
startProcessing ==
    /\ stage = "page"
    /\ ShowsProcessor(1, uploadStatus, processingResult, isProcessing)
    /\ Len(processing) < MaxInFlight
    /\ called' = <<>>
    /\ Render(uploadStatus, processingResult, TRUE, fileUploader, processors, processing,
              reading)
    /\ UNCHANGED <<stage, pipeline, editor, lazyLoader>>

\* DocumentProcessor: Start ATS Optimization, or Try Again after an error
handleStartProcessing(place) ==
    /\ stage = "page"
    /\ processors[place].mounted
    /\ View(processors[place]) \in {"ready", "error"}
    /\ Len(processing) < MaxInFlight
    /\ processors' = [processors EXCEPT ![place] =
                         [@ EXCEPT !.isProcessing = TRUE, !.error = FALSE, !.result = "null"]]
    /\ processing' = Append(processing,
                            [file |-> uploadStatus.file, place |-> place, live |-> TRUE])
    /\ called' = <<>>
    /\ UNCHANGED <<stage, pipeline, editor, lazyLoader, uploadStatus, fileUploader, reading,
                   processingResult, isProcessing>>

\* DocumentProcessor: processDocument resolves (ok) or rejects, and
\* handleStartProcessing goes on after its await; onComplete and onError are
\* handleProcessingComplete and handleProcessingError of FileUploadSection
ProcessingSettled(k, ok) ==
    /\ stage = "page"
    /\ k \in 1..Len(processing)
    /\ ok => processing[k].file # "none"
    /\ called' = <<>>
    /\ Render(IF ok THEN uploadStatus ELSE Status("error", "none"),
              IF ok THEN processing[k].file ELSE processingResult,
              FALSE, fileUploader,
              IF ~processing[k].live THEN processors
              ELSE [processors EXCEPT ![processing[k].place] =
                       [@ EXCEPT !.isProcessing = FALSE,
                                 !.result = IF ok THEN processing[k].file ELSE @,
                                 !.error = ~ok]],
              Dropped(processing, k), reading)
    /\ UNCHANGED <<stage, pipeline, editor, lazyLoader>>

\* FileUploadSection: Process Another Resume, or Try Again of the error card
resetAll ==
    /\ stage = "page"
    /\ processingResult # "null" \/ uploadStatus.state = "error"
    /\ called' = <<>>
    /\ Render(Status("idle", "none"), "null", FALSE, fileUploader, processors, processing,
              reading)
    /\ UNCHANGED <<stage, pipeline, editor, lazyLoader>>

\* the page as it is loaded, nothing uploaded yet
InitUpload ==
    /\ stage = "page"
    /\ upload = <<>>
    /\ doc = <<>>
    /\ runs = <<>>
    /\ steps = <<>>
    /\ reState = 0
    /\ downloads = <<>>
    /\ templated = <<>>
    /\ error = <<>>
    /\ InitPage

NextUpload ==
    \/ \E file \in Files : handleFileSelect(file)
    \/ \E k \in 1..MaxInFlight : ReadProgress(k)
    \/ \E k \in 1..MaxInFlight, ok \in BOOLEAN : ReadSettled(k, ok)
    \/ resetUpload
    \/ startProcessing
    \/ \E place \in 1..3 : handleStartProcessing(place)
    \/ \E k \in 1..MaxInFlight, ok \in BOOLEAN : ProcessingSettled(k, ok)
    \/ resetAll

\* the upload section from page load on
SpecUpload == InitUpload /\ [][NextUpload]_vars

(***************************************************************************)
(* lazy-loader.ts: the LazyLibraryLoader singleton                         *)
(***************************************************************************)
InFlight(name) == {load \in loads : load.name = name}

\* loadLibrary up to its await: the cached module, the promise of the load in
\* progress, or a new executeLoad call
loadLibrary(name) ==
    /\ stage = "page"
    /\ IF libraries[name].loaded /\ libraries[name].module # "null"
       THEN /\ returned' = <<[name |-> name, outcome |-> libraries[name].module,
                              load |-> 0, callers |-> 1]>>
            /\ UNCHANGED <<libraries, loads>>
       ELSE IF libraries[name].loading # 0
       THEN \E load \in {l \in InFlight(name) : l.id = libraries[name].loading} :
                /\ load.callers < MaxInFlight
                /\ loads' = (loads \ {load}) \cup {[load EXCEPT !.callers = @ + 1]}
                /\ returned' = <<>>
                /\ UNCHANGED libraries
       ELSE /\ Cardinality(loads) < MaxInFlight
            /\ \E id \in {Min({i \in 1..MaxInFlight : \A l \in loads : l.id # i})} :
                   /\ libraries' = [libraries EXCEPT ![name].loading = id]
                   /\ loads' = loads \cup {[name |-> name, id |-> id, callers |-> 1]}
            /\ returned' = <<>>
    /\ UNCHANGED <<pipeline, editor, uploadSection>>
    /\ UNCHANGED stage

\* executeLoad settles and loadLibrary goes on after its await; every caller
\* that was handed the promise gets what it settled with
LoadSettled(load, ok) ==
    /\ stage = "page"
    /\ load \in loads
    /\ libraries' = [libraries EXCEPT ![load.name] =
                        IF ok THEN [loaded |-> TRUE, loading |-> 0, module |-> "module"]
                        ELSE [@ EXCEPT !.loading = 0]]
    /\ loads' = loads \ {load}
    /\ returned' = <<[name |-> load.name, outcome |-> IF ok THEN "module" ELSE "error",
                      load |-> load.id, callers |-> load.callers]>>
    /\ UNCHANGED <<stage, pipeline, editor, uploadSection>>

\* cleanup(): every entry is reset; a load in progress goes on
cleanup ==
    /\ stage = "page"
    /\ libraries' = [name \in LibraryName |-> NoLibrary]
    /\ returned' = <<>>
    /\ UNCHANGED <<stage, pipeline, editor, uploadSection, loads>>

NextLoader ==
    \/ \E name \in LibraryName : loadLibrary(name)
    \/ \E load \in loads, ok \in BOOLEAN : LoadSettled(load, ok)
    \/ cleanup

\* the loader from page load on
SpecLoader == InitUpload /\ [][NextLoader]_vars

(***************************************************************************)
(* Properties                                                              *)
(***************************************************************************)
Optimized == Len(runs) > 0
Sections == Result.sections
Qualifying(section) == section.title # section.standardTitle

\* the lines of a text, each trimmed
TrimmedLines(text) == {trim(l) : l \in {split(text, "\n")[k] : k \in 1..Len(split(text, "\n"))}}

\* C1. Standardization completeness: once a document is optimized, for every
\* detected section whose title differs from its standard title the content
\* contains the standard title and has no line that is the original title.
StandardizationComplete ==
    Optimized =>
        \A k \in 1..Len(Sections) :
            Qualifying(Sections[k]) =>
                /\ includes(Result.content, Sections[k].standardTitle)
                /\ Sections[k].title \notin TrimmedLines(Result.content)

\* the text with the line of every qualifying section replaced by its
\* standard title and every other line kept
OwnLinesRewritten(text, sections) ==
    LET lines == split(text, "\n")
    IN  join([i \in 1..Len(lines) |->
                IF \E k \in 1..Len(sections) :
                      sections[k].startIndex = i - 1 /\ Qualifying(sections[k])
                THEN (CHOOSE sec \in {sections[k] : k \in 1..Len(sections)} :
                         sec.startIndex = i - 1).standardTitle
                ELSE lines[i]], <<"\n">>)

\* C2. The heading standardizer rewrites, for each qualifying section, the
\* line at the section's own start line and nothing else: what it returns is
\* what it was given with exactly those lines replaced.
OnlyOwnHeadingLineRewritten ==
    Optimized =>
        steps[1].standardized = OwnLinesRewritten(steps[1].structural, Sections)

\* the lines a reader sees in the plain-text artifact, bullets taken off
TxtTexts(content) ==
    LET lines == split(content, "\n")
        shown == SelectSeq([k \in 1..Len(lines) |-> trim(lines[k])], LAMBDA l : Len(l) > 0)
    IN  [k \in 1..Len(shown) |-> StripBullet(shown[k])]

\* the lines a reader sees in the DOCX artifact
DocxTexts(paragraphs) ==
    LET shown == SelectSeq(paragraphs, LAMBDA para : para.style # "spacer")
    IN  [k \in 1..Len(shown) |-> shown[k].text]

DocxWritten == stage = "complete" /\ downloads[2].label = "Microsoft Word (.docx)"

\* C3. Dual rendering cannot diverge: when both artifacts are produced, the
\* DOCX artifact shows the same headings and body lines in the same order as
\* the plain-text artifact.
DualRenderingAgrees ==
    DocxWritten => DocxTexts(downloads[2].content) = TxtTexts(downloads[1].content)

\* C4. Containment: no detected section's content has a line that is the
\* heading line of another detected section.
Containment ==
    Optimized =>
        \A k, m \in 1..Len(Sections) :
            k # m => Sections[m].title \notin TrimmedLines(Sections[k].content)

\* two sections are detected and the first has content
ContainmentWitness ==
    /\ Optimized
    /\ Len(Sections) >= 2
    /\ Len(Sections[1].content) > 0

\* C5. The detected sections are ordered by start line, their line ranges do
\* not overlap, and a section's content is made of the lines after its
\* heading line, up to its end line, and has no line that is its own heading.
SectionsOrderedDisjoint ==
    Optimized =>
        LET lines == split(doc[1].text, "\n")
        IN  \A k \in 1..Len(Sections) :
                /\ Sections[k].startIndex <= Sections[k].endIndex
                /\ Sections[k].endIndex < Len(lines)
                /\ k < Len(Sections) => Sections[k].endIndex < Sections[k + 1].startIndex
                /\ trim(lines[Sections[k].startIndex + 1]) = Sections[k].title
                /\ Sections[k].content =
                      trim(join(SubSeq(lines, Sections[k].startIndex + 2,
                                       Sections[k].endIndex + 1), <<"\n">>))
                /\ Sections[k].title \notin TrimmedLines(Sections[k].content)

\* a section with content is directly followed by another section
SectionsOrderedWitness ==
    /\ Optimized
    /\ \E k \in 1..(Len(Sections) - 1) :
          /\ Len(Sections[k].content) > 0
          /\ Sections[k + 1].startIndex = Sections[k].endIndex + 1

\* C6. Idempotence: a second run of the pipeline on the same document returns
\* the content of the first run; nothing the first run leaves behind (the
\* lastIndex of a global regular expression) reaches the second.
Idempotence ==
    Len(runs) = MaxRuns => \A k \in 1..Len(runs) : runs[k].content = runs[1].content

\* the document ran twice, and the first run left a lastIndex behind and
\* changed the text
IdempotenceWitness ==
    /\ Len(runs) = MaxRuns
    /\ reState > 0
    /\ runs[1].content # doc[1].text

Range(f) == {f[k] : k \in DOMAIN f}
LineBreaks == {"\n", "\r", "\f"}

\* C7. The normalizer strips control characters except newline: where the
\* extracted text has a line break between two lettered lines, the normalized
\* text has a line break.
LineBreaksKept ==
    stage = "parsed" =>
        LET raw == upload[1].raw
        IN  (\E i, j, k \in 1..Len(raw) :
                /\ i < j /\ j < k
                /\ raw[i] \in LetterSet /\ raw[j] \in LineBreaks /\ raw[k] \in LetterSet)
            => "\n" \in Range(doc[1].text)

\* C8. Optimization is never run on an empty or whitespace-only normalized
\* text: such a text aborts processing before the optimizer.
EmptyContentAborts ==
    Optimized => Len(trim(doc[1].text)) > 0

\* C9. Template order stability: when the standard titles of the detected
\* sections are exactly the labels of the template's sectionOrder, the
\* templated sections appear in the order of sectionOrder.
TemplateOrderStable ==
    stage = "templated" =>
        LET order == templated[1].template.sectionOrder
            rendered == [k \in 1..Len(templated[1].sections) |-> templated[1].sections[k].title]
        IN  (/\ Len(Sections) = Len(order)
             /\ Cardinality(Range(order)) = Len(order)
             /\ {Sections[k].standardTitle : k \in 1..Len(Sections)} = Range(order))
            => rendered = order

\* the matching rule of a template slot, as the specification words it
SlotTakes(section, slot) ==
    \/ section.standardTitle = slot
    \/ includes(toLowerCase(section.title), toLowerCase(slot))

\* C10. Template reordering returns a permutation of the detected sections;
\* every slot of the template that can take an unplaced section takes the
\* first such section, in slot order, a slot that can take none is skipped,
\* and the sections no slot took follow in their original order.
ReorderIsGreedyPermutation ==
    stage = "templated" =>
        LET ord == templated[1].orderedSections
            slots == templated[1].template.sectionOrder
            n == Len(Sections)
            Unplaced(c) == {sec \in Range(Sections) :
                               \A p \in 1..c : ord[p].startIndex # sec.startIndex}
        IN  /\ Len(ord) = n
            /\ \A k \in 1..n : ord[k] \in Range(Sections)
            /\ \A k, m \in 1..n : k # m => ord[k].startIndex # ord[m].startIndex
            /\ \E taken \in SUBSET (1..Len(slots)) :
                  LET before(t) == Cardinality({u \in taken : u < t})
                  IN  /\ Cardinality(taken) <= n
                      /\ \A t \in taken :
                            /\ SlotTakes(ord[before(t) + 1], slots[t])
                            /\ \A sec \in Unplaced(before(t)) :
                                  SlotTakes(sec, slots[t])
                                     => ord[before(t) + 1].startIndex <= sec.startIndex
                      /\ \A t \in (1..Len(slots)) \ taken :
                            \A sec \in Unplaced(before(t)) : ~SlotTakes(sec, slots[t])
                      /\ \A p, q \in (Cardinality(taken) + 1)..n :
                            p < q => ord[p].startIndex < ord[q].startIndex

\* a slot took a section by its original title, ahead of an earlier section,
\* and a section no slot took follows
ReorderWitness ==
    /\ stage = "templated"
    /\ Len(Sections) >= 2
    /\ templated[1].orderedSections # Sections
    /\ templated[1].orderedSections[1].standardTitle
          \notin Range(templated[1].template.sectionOrder)

\* the kinds the specification's validator treats as essential, in the order
\* the taxonomy declares them
EssentialKinds == <<"PROFESSIONAL_SUMMARY", "WORK_EXPERIENCE">>

Positions(seq, kind) == {n \in 1..Len(seq) : seq[n].warning = kind}

\* C11. Once a document is optimized, its warnings name exactly the kinds among
\* Professional Summary and Work Experience that no detected section is
\* classified as, in taxonomy order, after any word-count warning and before
\* any contact-information warning.
MissingSectionWarnings ==
    Optimized =>
        LET w == Result.warnings
            missing == SelectSeq(EssentialKinds, LAMBDA key :
                          \A n \in 1..Len(Sections) :
                              Sections[n].standardTitle # STANDARD_SECTIONS[key])
            named == SelectSeq(w, LAMBDA x : x.warning = "missing_section")
        IN  /\ Len(named) = Len(missing)
            /\ \A n \in 1..Len(named) : named[n].section = STANDARD_SECTIONS[missing[n]]
            /\ \A a \in Positions(w, "short_resume"), b \in Positions(w, "missing_section") : a < b
            /\ \A b \in Positions(w, "missing_section"), c \in Positions(w, "no_email") : b < c

RewrittenHeadings ==
    LET lines == split(Result.content, "\n")
    IN  {k \in 1..Len(Sections) :
            /\ Qualifying(Sections[k])
            /\ Sections[k].startIndex + 1 <= Len(lines)
            /\ trim(lines[Sections[k].startIndex + 1]) = Sections[k].standardTitle}

\* C13. Once a document is optimized, statistics.sectionsStandardized is the
\* number of heading lines rewritten in the final content, and
\* statistics.issuesFixed is the number of optimization records.
RecordsMatchRewrites ==
    Optimized =>
        /\ Result.statistics.sectionsStandardized = Cardinality(RewrittenHeadings)
        /\ Result.statistics.issuesFixed = Len(Result.optimizations)

\* C14. Every detected section's confidence lies between 0 and 1 (in tenths,
\* 0 and 10); it is 1.0 exactly when the original title equals the standard
\* title up to case, and 0.8 otherwise.
ConfidenceBound ==
    Optimized =>
        \A k \in 1..Len(Sections) :
            /\ Sections[k].confidence >= 0 /\ Sections[k].confidence <= 10
            /\ Sections[k].confidence = 10
                  <=> toLowerCase(Sections[k].title) = toLowerCase(Sections[k].standardTitle)
            /\ Sections[k].confidence # 10 => Sections[k].confidence = 8

\* a heading that differs from its standard title only by case beside one
\* that is another wording of its kind
ConfidenceWitness ==
    /\ Optimized
    /\ \E k \in 1..Len(Sections) :
          Sections[k].confidence = 10 /\ Sections[k].title # Sections[k].standardTitle
    /\ \E k \in 1..Len(Sections) : Sections[k].confidence = 8

\* what the first example is to show: each heading in its standard wording,
\* followed by its body line
Example1Shown ==
    <<STANDARD_SECTIONS.WORK_EXPERIENCE, Example1[2], STANDARD_SECTIONS.EDUCATION, Example1[4]>>

\* C15. For the first example two sections are detected, WORK HISTORY becomes
\* Work Experience, and both artifacts show Work Experience, Did X, Education,
\* BS CS in this order.
Example1Rendered ==
    (Optimized /\ doc[1].text = join(Example1, <<"\n">>)) =>
        /\ Len(Sections) = 2
        /\ Sections[1].title = Example1[1]
        /\ Sections[1].standardTitle = STANDARD_SECTIONS.WORK_EXPERIENCE
        /\ TxtTexts(Result.content) = Example1Shown
        /\ DocxWritten => DocxTexts(downloads[2].content) = Example1Shown

\* C16. Once a document is optimized the final content holds no tab, and a
\* structure_improved record was appended if the text given to the optimizer
\* held one.
TabRunsFlattened ==
    Optimized =>
        /\ "\t" \notin Range(Result.content)
        /\ "\t" \in Range(doc[1].text) =>
              \E n \in 1..Len(Result.optimizations) :
                  Result.optimizations[n].type = "structure_improved"

\* C17. The stages run in the order classified, standardized, structured,
\* each on its predecessor's output: the text whose headings the standardizer
\* rewrites is the text the sections were classified from, no structural pass
\* having touched it, and the parsed document is left as it was.
StagesInOrder ==
    Optimized =>
        /\ steps[1].structural = doc[1].text
        /\ Sections = detectSections(doc[1].text)

\* the blocks of a section list, one after the other
RECURSIVE SectionBlocks(_, _)
SectionBlocks(sections, k) ==
    IF k > Len(sections) THEN <<>>
    ELSE (IF k > 1 THEN <<"\n", "\n", "-", "-", "-", "\n", "\n">> ELSE <<>>)
           \o sections[k].standardTitle \o <<"\n", "\n">> \o sections[k].content
           \o SectionBlocks(sections, k + 1)

\* the section keeps the heading and the classification of a section of the
\* list before the edit, or takes those of a template of the Add Section dialog
KeepsClassification(section, before) ==
    \/ \E i \in 1..Len(before) :
           /\ section.title = before[i].title
           /\ section.standardTitle = before[i].standardTitle
           /\ section.confidence = before[i].confidence
    \/ \E k \in 1..Len(SECTION_TEMPLATES) :
           /\ section.title = SECTION_TEMPLATES[k].title
           /\ section.standardTitle = SECTION_TEMPLATES[k].standardTitle

\* a step of the SectionManager that edits the section list
SectionEdit == stage = "editing" /\ activeTab = "sections" /\ edits' = edits + 1

\* C18. After any section edit in the editor (reorder, edit of a content,
\* delete, add) the current content is the blocks of the edited section list
\* in its current order, and no section is classified again: each keeps the
\* heading and standard title it had, or those of the template it was added
\* from.
SectionEditRebuildsContent ==
    [][SectionEdit =>
          /\ currentContent' = SectionBlocks(currentSections', 1)
          /\ hasUnsavedChanges'
          /\ \A k \in 1..Len(currentSections') :
                 KeepsClassification(currentSections'[k], currentSections)]_vars

\* a section edit has left a list that differs from the detected one, and a
\* content rebuilt from it
SectionEditWitness ==
    /\ stage = "editing"
    /\ activeTab = "sections"
    /\ edits > 0
    /\ hasUnsavedChanges
    /\ Len(currentSections) > 1
    /\ currentSections # Result.sections
    /\ currentContent # Result.content
    /\ currentContent = SectionBlocks(currentSections, 1)

\* the file of the given format generated from the current content and
\* sections, by the writer that generated the download options
CurrentRendering(format) ==
    IF format = "txt" THEN currentContent
    ELSE generateDownloadOptions([content |-> currentContent, sections |-> currentSections],
                                 isDOCXGenerationSupported,
                                 downloads[2].label = "Microsoft Word (.docx)")[2].content

\* C19. After the user has edited the resume in the editor, a download in
\* either format, TXT or DOCX, delivers the current edited content and not the
\* content as it was before the edits.
DownloadDeliversEdits ==
    (edits > 0 /\ delivered # <<>>) =>
        delivered[1].content = CurrentRendering(delivered[1].format)

\* C20. With auto-clear enabled, once the page is closed nothing but the theme
\* preference remains in localStorage and nothing at all in sessionStorage: no
\* editor draft and no editor session.
AutoClearLeavesNoResume ==
    (stage = "closed" /\ isAutoClearing) =>
        /\ DOMAIN localStorage \subseteq {"theme"}
        /\ DOMAIN sessionStorage = {}

\* the lines that detectSections looks at: trimmed, and not empty
ScannedLines(text) == {l \in TrimmedLines(text) : Len(l) > 0}

\* no lower-case letter, and a letter at all
EntirelyUpperCase(line) ==
    /\ \E i \in 1..Len(line) : line[i] \in UpperSet
    /\ \A i \in 1..Len(line) : line[i] \notin LowerSet

\* every word begins with an upper-case letter
TitleCaseWordByWord(line) ==
    \A k \in 1..Len(split(line, " ")) :
        Len(split(line, " ")[k]) = 0 \/ split(line, " ")[k][1] \in UpperSet

\* the line begins, in any case, with one of the generic heading words
GenericHeadingPrefix(line) ==
    \E k \in 1..Len(line) : Str(toLowerCase(SubSeq(line, 1, k))) \in HeadingPrefixes

\* C21. A scanned line is treated as a heading candidate if and only if it has
\* at most 50 characters, does not end in '.' or ',', and is entirely
\* upper-case, or title-case word by word, or begins with a generic heading
\* word; a heading candidate that matches no pattern of the taxonomy is the
\* title of no section.
HeadingCandidateRule ==
    Optimized =>
        \A line \in ScannedLines(doc[1].text) :
            /\ isLikelyHeading(line) <=>
                  /\ Len(line) <= 50
                  /\ ~endsWith(line, ".") /\ ~endsWith(line, ",")
                  /\ \/ EntirelyUpperCase(line)
                     \/ TitleCaseWordByWord(line)
                     \/ GenericHeadingPrefix(line)
            /\ (isLikelyHeading(line) /\ matchSectionPattern(line) = "") =>
                  \A k \in 1..Len(Sections) : Sections[k].title # line

\* the text holds n characters of the set in a row
HasRun(text, chars, n) ==
    \E i \in 1..(Len(text) - n + 1) : \A k \in 0..(n - 1) : text[i + k] \in chars

\* the normalizer of the parser that produced the document
Normalizer(source, text) == IF source = "pdf" THEN cleanPDFText(text) ELSE cleanDOCXText(text)

\* C22. Whitespace and newline normalization is idempotent and is the same in
\* the normalizer and in the structural optimizer: a parsed text holds no run
\* of two or more spaces or tabs and no run of three or more newlines, the
\* normalizer applied again leaves it as it is, and so does the whitespace pass
\* of the structural optimizer, which then appends no record.
NormalizationIdempotent ==
    doc # <<>> =>
        /\ ~HasRun(doc[1].text, {" ", "\t"}, 2)
        /\ ~HasRun(doc[1].text, {"\n"}, 3)
        /\ Normalizer(doc[1].source, doc[1].text) = doc[1].text
        /\ ReplaceRuns(ReplaceRuns(doc[1].text, {"\n"}, 3, <<"\n", "\n">>),
                       {" ", "\t"}, 2, <<" ">>) = doc[1].text
        /\ \A k \in 1..Len(runs) : \A j \in 1..Len(runs[k].optimizations) :
               runs[k].optimizations[j].type # "formatting_cleaned"

\* C23. In the resume editor, after any sequence of edit, undo and redo
\* events, several undo or redo events handled before a re-render included,
\* historyIndex is an index of history and content is the entry at that
\* index; and an undo followed by a redo gives back the same content.
HistoryConsistent ==
    (stage = "editing" /\ activeTab = "editor") =>
        /\ editorState.historyIndex \in 0..(Len(editorState.history) - 1)
        /\ editorState.content = At(editorState.history, editorState.historyIndex)
        /\ editorState.historyIndex > 0 =>
               Redo(Undo(editorState)).content = editorState.content

\* the saved session is the current content and sections, nothing is unsaved
\* and the auto-saving indicator is off
SessionSaved ==
    /\ stage = "editing"
    /\ hasItem(localStorage, "claritycv-editor-session")
    /\ localStorage["claritycv-editor-session"] = EditorData
    /\ ~hasUnsavedChanges
    /\ ~isAutoSaving

\* C24. In the editor interface every edit is eventually followed, once the
\* edits have stopped, by a state in which the session saved in localStorage
\* is the current content and sections, hasUnsavedChanges is false and the
\* auto-saving indicator is off, whether the save is the auto-save or a manual
\* save.
EditEventuallySaved == (stage = "editing" /\ hasUnsavedChanges) ~> SessionSaved

\* a processDocument call settles with a result
ProcessingCompletes == \E k \in 1..Len(processing) : ProcessingSettled(k, TRUE)

\* the upload section shows the statistics and the download options of the
\* result it holds
ResultShown ==
    \E place \in 1..3 :
        /\ processors[place].mounted
        /\ View(processors[place]) = "result"
        /\ processors[place].result = processingResult

\* C25. After processing of an uploaded file completes successfully, the
\* upload section shows the completed result of that run, statistics and
\* download options, without the user starting processing again, whichever of
\* the two start buttons was used.
CompletedResultShown == [][ProcessingCompletes => ResultShown']_vars

\* a read settles that is not the read of the file selected last, or that was
\* started before the uploader was reset
StaleReadSettles ==
    \E k \in 1..Len(reading), ok \in BOOLEAN : ~reading[k].latest /\ ReadSettled(k, ok)

\* C29. The uploader's state reflects the most recent user action: a file read
\* that completes or fails after the uploader was reset, or after a newer file
\* was selected, neither changes the upload state nor invokes onFileProcessed
\* or onError.
StaleReadIgnored ==
    [][StaleReadSettles => (UNCHANGED <<uploadStatus, fileUploader>> /\ called' = <<>>)]_vars

\* C30. For each lazily loaded library, under any interleaving of load
\* requests, completions, failures and cleanup(), at most one load is in flight
\* at a time, so that all concurrent callers wait for that load and receive
\* its result; a library that is not loaded and has no load in flight, a load
\* having failed, holds no promise and can be requested again; and loaded
\* implies that a module is present and no load is in flight.
OneLoadInFlight ==
    \A name \in LibraryName :
        /\ Cardinality(InFlight(name)) <= 1
        /\ (~libraries[name].loaded /\ InFlight(name) = {}) => libraries[name].loading = 0
        /\ libraries[name].loaded =>
               libraries[name].module # "null" /\ InFlight(name) = {}

\* what the two parsing entry points make of a file whose text was extracted
EntryPoints(file) == {parseDocument(file, TRUE), parseDocumentEnhanced(file, TRUE)}

\* C26. A document whose extracted text has fewer than 50 words is rejected
\* with an insufficient-content error before optimization, for PDF and DOCX
\* sources and on every parsing entry point: no document of fewer than 50
\* words is returned by parseDocument or parseDocumentEnhanced, a file with
\* text that they reject is rejected as insufficient content, and no such
\* document is optimized.
ShortDocumentRejected ==
    /\ Optimized => doc[1].wordCount >= MIN_WORD_COUNT
    /\ upload[1].kind \in {"pdf", "docx"} =>
           \A parsed \in EntryPoints(upload[1]) :
               /\ ~parsed.failed => parsed.document.wordCount >= MIN_WORD_COUNT
               /\ (parsed.failed /\ Len(trim(upload[1].raw)) > 0) =>
                      parsed.code = "INSUFFICIENT_CONTENT"

\* the lines of a text that hold anything, each trimmed
ContentLines(text) == {line \in TrimmedLines(text) : Len(line) > 0}

\* the Bag of the sections of a list, as a function from section to count
Occurrences(sections, section) == Cardinality({k \in 1..Len(sections) : sections[k] = section})

\* a section is dropped on a place of the list
DragReorders ==
    \E source \in 0..(Len(currentSections) - 1), destination \in 0..(Len(currentSections) - 1) :
        handleDragEnd(source, <<destination>>)

\* C27. Reordering sections in the editor by drag and drop changes only the
\* order of the sections: every line of the content present before the reorder
\* is still present afterwards, text that belongs to no detected section
\* included, and no section is lost or duplicated.
ReorderKeepsContent ==
    [][DragReorders =>
          /\ ContentLines(currentContent) \subseteq ContentLines(currentContent')
          /\ Len(currentSections') = Len(currentSections)
          /\ \A k \in 1..Len(currentSections) :
                 Occurrences(currentSections', currentSections[k])
                    = Occurrences(currentSections, currentSections[k])]_vars

\* C28. Saving an in-progress section edit changes the content of exactly the
\* section the user opened for editing and of no other section, and never
\* creates a new list entry, even if sections were reordered, deleted or added
\* between opening the edit and saving it.
SaveEditsOpenedSection ==
    [][handleSaveEdit =>
          /\ Len(currentSections') = Len(currentSections)
          /\ \E i \in 1..Len(currentSections) :
                 /\ currentSections[i] = openedSection[1]
                 /\ currentSections' = [currentSections EXCEPT ![i].content = editingContent]]_vars
====
